---------------------------- MODULE Spec2Model ----------------------------
(***************************************************************************)
(* Model of the clearing and settlement engine of the virtual energy       *)
(* trading simulator: averageRTToHourly (src/utils/time.ts), clearBids and *)
(* getClearingSummary (src/utils/clearing.ts).                              *)
(*                                                                         *)
(* Representation of values                                                *)
(*  - An ISO-8601 timestamp string with an explicit offset,                *)
(*      "2024-11-03THH:MM:00[.000]-0X:00",                                 *)
(*    is the record [utc, off, ms] of the three things that determine it:  *)
(*    utc = the instant, in minutes after 2024-11-03T05:00:00Z (midnight   *)
(*    of the day on which America/Chicago leaves daylight-saving time),    *)
(*    off = the printed UTC offset in hours, ms = whether the fraction     *)
(*    ".000" is printed.  Two records are equal iff the strings are equal  *)
(*    (===, Map and Set keys).                                             *)
(*  - A JavaScript number that can be fractional (an average, a P&L) is a  *)
(*    normalised fraction [num, den]; prices and quantities supplied by    *)
(*    the caller are integers.                                             *)
(*  - null is the empty tuple and a present value v is <<v>>.              *)
(***************************************************************************)
EXTENDS Integers, Sequences, FiniteSets

VARIABLES
    running,         \* the function, component or handler this run executes
    rtData,          \* averageRTToHourly: the argument
    hourlyAverages,  \* averageRTToHourly: the returned array
    avgPc,           \* "ready" before the call, "done" after it
    inBids,          \* clearBids: the bids argument
    inDA,            \* clearBids: the daHourlyPrices argument
    inRT,            \* clearBids: the rtFiveMinPrices argument
    given,           \* the three arguments as first supplied
    outClears,       \* clearBids: the array returned by the latest call
    prevClears,      \* the array returned by the call before that
    clearPc,         \* "ready", "called" (one call), "recalled" (two calls)
    sumIn,           \* getClearingSummary: the argument
    summary,         \* getClearingSummary: the returned object
    sumPc,           \* "ready" before the call, "done" after it
    hostZone,        \* the time zone of the machine running the program
    now,             \* the clock: DateTime.now()
    cutoffDate,      \* getCutoffStatus: the tradingDate argument
    cutoffStatus,    \* getCutoffStatus: the latest returned object, or null
    hourStarts,      \* getHourStartsForDate: the latest returned array, or null
    state,           \* the store: the AppState object
    storage,         \* localStorage: the item "energy-trading-app", or null
    nextId,          \* the number of the next value of crypto.randomUUID()
    isOrderEntryDisabled, \* OrderEntry: the value in its latest render
    effectPending,   \* ClearingTable: its effect is due to run
    retryPc,         \* fetchWithRetry: "call" (about to be called), "fetch"
                     \* (a request awaited), "sleep", "returned", "thrown"
    attempt,         \* fetchWithRetry: the loop variable
    attemptsUsed,    \* the number of upstream requests issued
    lastError,       \* fetchWithRetry: lastError, or null
    retryResult,     \* the response returned or the error thrown
    delayMs,         \* the latest delay slept
    res,             \* fetchWithRetry: res of the current pass, or null
                     \* while it has none
    proxyResponse,   \* GET: the response the proxy answers with, or null
    initPc,          \* initializeClientDate: "idle", "pending" or "done"
    pickedDate,      \* the date last chosen in the DatePicker, or null
    fetchPc,         \* fetchMarketData: "idle", or the promise it awaits: "da",
                     \* "daJson", "rt" or "rtJson"
    fetchFor,        \* fetchMarketData: the marketSelection of its closure
    daResponse,      \* fetchMarketData: daResponse, or null
    rtResponse       \* fetchMarketData: rtResponse, or null

avgVars == <<rtData, hourlyAverages, avgPc>>
clearVars == <<inBids, inDA, inRT, given, outClears, prevClears, clearPc>>
sumVars == <<sumIn, summary, sumPc>>
clockVars == <<hostZone, now>>
cutoffVars == <<cutoffDate, cutoffStatus, hourStarts>>
vars == <<running, rtData, hourlyAverages, avgPc, inBids, inDA, inRT, given, outClears,
          prevClears, clearPc, sumIn, summary, sumPc, hostZone, now,
          cutoffDate, cutoffStatus, hourStarts, state, storage, nextId,
          isOrderEntryDisabled, effectPending, retryPc, attempt,
          attemptsUsed, lastError, retryResult, delayMs, res, proxyResponse,
          initPc, pickedDate, fetchPc, fetchFor, daResponse, rtResponse>>
pageVars == <<initPc, pickedDate, fetchPc, fetchFor, daResponse, rtResponse>>
retryVars == <<retryPc, attempt, attemptsUsed, lastError, retryResult, delayMs,
               res, proxyResponse>>
uiVars == <<isOrderEntryDisabled, effectPending>>
storeVars == <<state, storage, nextId>>

---------------------------------------------------------------------------
(* Bounds of the model *)

\* longest rtData sequence given to averageRTToHourly
MaxSamples == 3
\* most array elements (bids + DA prices + RT samples) given to clearBids
MaxItems == 3
\* how many bids beyond the per-hour cap a single hour is given
OverCap == 1
\* longest HourlyClear sequence given to getClearingSummary
MaxClears == 3
\* the last trading date, in days after 2024-11-03
LastDay == 1
\* how many times addBid is called
MaxNewBids == 3

(* Program constants *)

\* the order-entry cap on bids per hour, which clearBids does not re-check
MaxBidsPerHour == 10
\* America/Chicago leaves daylight-saving time at 2024-11-03T07:00:00Z
DstEndUtc == 120

---------------------------------------------------------------------------
(* Sequences *)

Range(s) == {s[i] : i \in DOMAIN s}

SeqsUpTo(S, n) == UNION {[1..k -> S] : k \in 0..n}

\* s with the elements at positions i and j exchanged
Swap(s, i, j) ==
    [k \in DOMAIN s |-> IF k = i THEN s[j] ELSE IF k = j THEN s[i] ELSE s[k]]

\* keys of a Map or Set in iteration order: order of first insertion
RECURSIVE InsertionOrder(_)
InsertionOrder(keys) ==
    IF keys = <<>> THEN <<>>
    ELSE LET front == InsertionOrder(SubSeq(keys, 1, Len(keys) - 1))
             last == keys[Len(keys)]
         IN IF last \in Range(front) THEN front ELSE Append(front, last)

---------------------------------------------------------------------------
(* Numbers *)

Abs(x) == IF x < 0 THEN -x ELSE x

RECURSIVE GCD(_, _)
GCD(a, b) == IF b = 0 THEN a ELSE GCD(b, a % b)

\* the number n / d (d # 0) in lowest terms
Frac(n, d) ==
    LET g == GCD(Abs(n), Abs(d))
        s == IF (n < 0) # (d < 0) THEN -1 ELSE 1
    IN [num |-> s * (Abs(n) \div g), den |-> Abs(d) \div g]

Num(n) == [num |-> n, den |-> 1]
Zero == Num(0)
NumAdd(x, y) == Frac(x.num * y.den + y.num * x.den, x.den * y.den)
NumSub(x, y) == Frac(x.num * y.den - y.num * x.den, x.den * y.den)
NumMul(x, y) == Frac(x.num * y.num, x.den * y.den)
NumDiv(x, y) == Frac(x.num * y.den, x.den * y.num)

Null == <<>>
Some(v) == <<v>>
Val(o) == o[1]

---------------------------------------------------------------------------
(* Timestamps: luxon and String.prototype.localeCompare *)

\* UTC offset of America/Chicago at an instant
ChicagoOffset(utc) == IF utc < DstEndUtc THEN -5 ELSE -6

\* the wall-clock date and time a timestamp string prints, in minutes
WallClock(ts) == ts.utc + 60 * ts.off

\* DateTime.fromISO(s).setZone(MARKET_TIMEZONE).startOf("hour").toISO():
\* the instant is kept, cut to the hour, and printed with Chicago's offset
\* at that instant and with milliseconds
HourStartKeyExact(ts) ==
    [utc |-> ts.utc, off |-> ChicagoOffset(ts.utc), ms |-> TRUE]
HourStartKey(ts) ==
    LET h == (ts.utc \div 60) * 60
    IN [utc |-> h, off |-> ChicagoOffset(h), ms |-> TRUE]

\* a.localeCompare(b) for two timestamp strings: -1, 0 or 1.  The strings
\* agree up to the seconds iff they print the same wall clock; then a
\* string without milliseconds continues with "-" and one with
\* milliseconds with ".", and "-" collates first; then "-05:00" collates
\* before "-06:00".
localeCompare(a, b) ==
    IF WallClock(a) # WallClock(b)
    THEN (IF WallClock(a) < WallClock(b) THEN -1 ELSE 1)
    ELSE IF a.ms # b.ms
    THEN (IF ~a.ms THEN -1 ELSE 1)
    ELSE IF a.off # b.off
    THEN (IF Abs(a.off) < Abs(b.off) THEN -1 ELSE 1)
    ELSE 0

\* Array.prototype.sort((a, b) => a.hourStart.localeCompare(b.hourStart)):
\* a stable sort
RECURSIVE InsertSorted(_, _)
InsertSorted(sorted, x) ==
    IF sorted = <<>> THEN <<x>>
    ELSE LET last == sorted[Len(sorted)]
         IN IF localeCompare(last.hourStart, x.hourStart) <= 0
            THEN Append(sorted, x)
            ELSE Append(InsertSorted(SubSeq(sorted, 1, Len(sorted) - 1), x), last)

RECURSIVE SortInsertions(_)
SortInsertions(s) ==
    IF s = <<>> THEN <<>>
    ELSE InsertSorted(SortInsertions(SubSeq(s, 1, Len(s) - 1)), s[Len(s)])

SortByHourStart(s) == SortInsertions(s)

---------------------------------------------------------------------------
(* averageRTToHourly, src/utils/time.ts *)

\* points.reduce((sum, p) => sum + p.price, 0)
RECURSIVE SumPrices(_)
SumPrices(points) ==
    IF points = <<>> THEN 0
    ELSE SumPrices(SubSeq(points, 1, Len(points) - 1))
         + points[Len(points)].settlement_point_price

\* hourlyGroups.get(hourStart): the samples pushed under that key, in
\* input order
HourlyGroup(data, hourStart) ==
    SelectSeq(data, LAMBDA p : HourStartKey(p.datetime_beginning_ept) = hourStart)

averageRTToHourlyFirstPrice(data) ==
    LET keys == InsertionOrder(
                   [i \in DOMAIN data |-> HourStartKey(data[i].datetime_beginning_ept)])
    IN SortByHourStart(
         [i \in DOMAIN keys |->
            LET points == HourlyGroup(data, keys[i])
            IN [hourStart |-> keys[i],
                avgPrice |-> Num(points[1].settlement_point_price),
                settlement_point |-> points[1].settlement_point]])

averageRTToHourly(data) ==
    LET keys == InsertionOrder(
                   [i \in DOMAIN data |-> HourStartKey(data[i].datetime_beginning_ept)])
    IN SortByHourStart(
         [i \in DOMAIN keys |->
            LET points == HourlyGroup(data, keys[i])
            IN [hourStart |-> keys[i],
                avgPrice |-> Frac(SumPrices(points), Len(points)),
                settlement_point |-> points[1].settlement_point]])

---------------------------------------------------------------------------
(* clearBids, src/utils/clearing.ts *)

\* shouldBidClear with the comparisons made strict
shouldBidClearStrict(bid, daPrice) ==
    CASE bid.side = "BUY" -> bid.price > daPrice
      [] bid.side = "SELL" -> bid.price < daPrice
      [] OTHER -> FALSE

shouldBidClear(bid, daPrice) ==
    CASE bid.side = "BUY" -> bid.price >= daPrice
      [] bid.side = "SELL" -> bid.price <= daPrice
      [] OTHER -> FALSE

\* bidsByHour.get(hourStart) ?? []: the bids pushed under that key, in
\* input order
bidsByHour(bids, hourStart) ==
    SelectSeq(bids, LAMBDA b : b.hourStart = hourStart)

\* daPricesByHour keeping the first price point of an hour
daPricesByHourFirst(daHourlyPrices, hourStart) ==
    LET at == {i \in DOMAIN daHourlyPrices :
                 daHourlyPrices[i].datetime_beginning_ept = hourStart}
    IN IF at = {} THEN Null
       ELSE Some(daHourlyPrices[CHOOSE i \in at : \A j \in at : i <= j]
                   .settlement_point_price)

\* daPricesByHour.get(hourStart) ?? null: Map.set overwrites, so the last
\* price point with that key is the one kept
daPricesByHour(daHourlyPrices, hourStart) ==
    LET at == {i \in DOMAIN daHourlyPrices :
                 daHourlyPrices[i].datetime_beginning_ept = hourStart}
    IN IF at = {} THEN Null
       ELSE Some(daHourlyPrices[CHOOSE i \in at : \A j \in at : j <= i]
                   .settlement_point_price)

\* rtPricesByHour.get(hourStart) ?? null
rtPricesByHour(rtHourlyAverages, hourStart) ==
    LET at == {i \in DOMAIN rtHourlyAverages :
                 rtHourlyAverages[i].hourStart = hourStart}
    IN IF at = {} THEN Null
       ELSE Some(rtHourlyAverages[CHOOSE i \in at : \A j \in at : j <= i].avgPrice)

\* allHours with the DA hours left out
allHoursOfBids(bids, daHourlyPrices) ==
    InsertionOrder([i \in DOMAIN bids |-> bids[i].hourStart])

\* allHours: the keys of bidsByHour, then the hour of every DA price point
allHours(bids, daHourlyPrices) ==
    InsertionOrder(
        InsertionOrder([i \in DOMAIN bids |-> bids[i].hourStart])
        \o [i \in DOMAIN daHourlyPrices |-> daHourlyPrices[i].datetime_beginning_ept])

\* the forEach over hourBids: every clearing bid adds its signed quantity
RECURSIVE SumContributions(_, _)
SumContributions(hourBids, p) ==
    IF hourBids = <<>> THEN 0
    ELSE LET bid == hourBids[Len(hourBids)]
         IN SumContributions(SubSeq(hourBids, 1, Len(hourBids) - 1), p)
            + (IF shouldBidClear(bid, p)
               THEN (IF bid.side = "BUY" THEN bid.qtyMWh ELSE -bid.qtyMWh)
               ELSE 0)

\* clearedQty without the daPrice !== null guard: null compares as 0
hourClearedQtyUnguarded(hourBids, daPrice) ==
    SumContributions(hourBids, IF daPrice # Null THEN Val(daPrice) ELSE 0)

hourClearedQty(hourBids, daPrice) ==
    IF daPrice # Null THEN SumContributions(hourBids, Val(daPrice)) ELSE 0

\* pnl with the price difference taken the other way round
hourPnlSwapped(daPrice, avgRtPrice, clearedQty) ==
    IF daPrice # Null /\ avgRtPrice # Null /\ clearedQty # 0
    THEN NumMul(Num(clearedQty), NumSub(Num(Val(daPrice)), Val(avgRtPrice)))
    ELSE Zero

hourPnl(daPrice, avgRtPrice, clearedQty) ==
    IF daPrice # Null /\ avgRtPrice # Null /\ clearedQty # 0
    THEN NumMul(Num(clearedQty), NumSub(Val(avgRtPrice), Num(Val(daPrice))))
    ELSE Zero

\* array.sort((a, b) => a.hourStart.localeCompare(b.hourStart)) on one of
\* the arrays in memory: the array itself is reordered
sortInPlace(memory, array) ==
    [memory EXCEPT ![array] = SortByHourStart(@)]

\* the arrays in memory while clearBids runs: the three the caller passed
\* and hourlyClears, which clearBids creates
Memory(bids, daHourlyPrices, rtFiveMinPrices) ==
    [bids |-> bids, daHourlyPrices |-> daHourlyPrices,
     rtFiveMinPrices |-> rtFiveMinPrices, hourlyClears |-> <<>>]

\* the body of clearBids up to its last statement: it reads the three
\* arrays with forEach, fills maps of its own and pushes one record per
\* hour on hourlyClears
clearBidsPushes(memory) ==
    LET bids == memory.bids
        daHourlyPrices == memory.daHourlyPrices
        rtHourlyAverages == averageRTToHourly(memory.rtFiveMinPrices)
        hours == allHours(bids, daHourlyPrices)
    IN [memory EXCEPT !.hourlyClears =
         [i \in DOMAIN hours |->
            LET hourStart == hours[i]
                daPrice == daPricesByHour(daHourlyPrices, hourStart)
                avgRtPrice == rtPricesByHour(rtHourlyAverages, hourStart)
                clearedQty == hourClearedQty(bidsByHour(bids, hourStart), daPrice)
            IN [hourStart |-> hourStart,
                daPrice |-> daPrice,
                avgRtPrice |-> avgRtPrice,
                clearedQty |-> clearedQty,
                pnl |-> hourPnl(daPrice, avgRtPrice, clearedQty)]]]

\* clearBids ending in bids.sort(...): it reorders the caller's array
clearBidsInMemorySortingBids(memory) ==
    sortInPlace(clearBidsPushes(memory), "bids")

\* clearBids on the arrays in memory: the memory it leaves, its last
\* statement being return hourlyClears.sort(...)
clearBidsInMemory(memory) ==
    sortInPlace(clearBidsPushes(memory), "hourlyClears")

\* the array clearBids returns
clearBids(bids, daHourlyPrices, rtFiveMinPrices) ==
    clearBidsInMemory(Memory(bids, daHourlyPrices, rtFiveMinPrices)).hourlyClears

---------------------------------------------------------------------------
(* getClearingSummary, src/utils/clearing.ts *)

\* hourlyClears.reduce((total, clear) => total + clear.pnl, 0)
RECURSIVE calculateTotalPnL(_)
calculateTotalPnL(hourlyClears) ==
    IF hourlyClears = <<>> THEN Zero
    ELSE NumAdd(calculateTotalPnL(SubSeq(hourlyClears, 1, Len(hourlyClears) - 1)),
                hourlyClears[Len(hourlyClears)].pnl)

\* hourlyClears.reduce((total, clear) => total + Math.abs(clear.clearedQty), 0)
RECURSIVE calculateTotalClearedQty(_)
calculateTotalClearedQty(hourlyClears) ==
    IF hourlyClears = <<>> THEN 0
    ELSE calculateTotalClearedQty(SubSeq(hourlyClears, 1, Len(hourlyClears) - 1))
         + Abs(hourlyClears[Len(hourlyClears)].clearedQty)

\* .reduce((sum, c) => sum + c.clearedQty, 0)
RECURSIVE SumClearedQty(_)
SumClearedQty(cs) ==
    IF cs = <<>> THEN 0
    ELSE SumClearedQty(SubSeq(cs, 1, Len(cs) - 1)) + cs[Len(cs)].clearedQty

\* the long quantity: the positive cleared quantities, added up
longQtyOf(hourlyClears) ==
    SumClearedQty(SelectSeq(hourlyClears, LAMBDA c : c.clearedQty > 0))

\* the short quantity without Math.abs
shortQtyOfSigned(hourlyClears) ==
    SumClearedQty(SelectSeq(hourlyClears, LAMBDA c : c.clearedQty < 0))

\* the short quantity: the negative cleared quantities, their absolute
\* values added up
shortQtyOf(hourlyClears) ==
    calculateTotalClearedQty(SelectSeq(hourlyClears, LAMBDA c : c.clearedQty < 0))

\* avgPnLPerHour with the guard off by one
avgPnLPerHourOffByOne(totalPnL, hoursWithPnL) ==
    IF hoursWithPnL > 1 THEN NumDiv(totalPnL, Num(hoursWithPnL)) ELSE Zero

\* hoursWithPnL > 0 ? totalPnL / hoursWithPnL : 0
avgPnLPerHourOf(totalPnL, hoursWithPnL) ==
    IF hoursWithPnL > 0 THEN NumDiv(totalPnL, Num(hoursWithPnL)) ELSE Zero

getClearingSummary(hourlyClears) ==
    LET totalPnL == calculateTotalPnL(hourlyClears)
        hoursWithPositions == Len(SelectSeq(hourlyClears, LAMBDA c : c.clearedQty # 0))
        hoursWithPnL == Len(SelectSeq(hourlyClears, LAMBDA c : c.pnl # Zero))
    IN [totalPnL |-> totalPnL,
        totalClearedQty |-> calculateTotalClearedQty(hourlyClears),
        longQty |-> longQtyOf(hourlyClears),
        shortQty |-> shortQtyOf(hourlyClears),
        hoursWithPositions |-> hoursWithPositions,
        hoursWithPnL |-> hoursWithPnL,
        avgPnLPerHour |-> avgPnLPerHourOf(totalPnL, hoursWithPnL)]

---------------------------------------------------------------------------
(* Numbers with a fractional part: IEEE 754 doubles *)

\* A quantity entered with a decimal (0.1 MWh steps) is the double nearest
\* to it.  A double is [neg, mag]: its sign and the set of the positions of
\* the binary digits of its magnitude that are 1, position i standing for
\* 2^(i - FractionBits).  Zero is [neg |-> FALSE, mag |-> {}].
FractionBits == 56
\* a double keeps this many significant binary digits
SignificandBits == 53
\* the highest position used
TopBit == 62

\* the magnitude of the sum of two magnitudes, digit by digit with carry
RECURSIVE AddWithCarry(_, _, _, _)
AddWithCarry(A, B, i, carry) ==
    IF i > TopBit THEN {}
    ELSE LET n == (IF i \in A THEN 1 ELSE 0) + (IF i \in B THEN 1 ELSE 0) + carry
         IN (IF n % 2 = 1 THEN {i} ELSE {}) \cup AddWithCarry(A, B, i + 1, n \div 2)
BitsAdd(A, B) == AddWithCarry(A, B, 0, 0)

\* the magnitude of the difference A - B of two magnitudes with A >= B
RECURSIVE SubWithBorrow(_, _, _, _)
SubWithBorrow(A, B, i, borrow) ==
    IF i > TopBit THEN {}
    ELSE LET n == (IF i \in A THEN 1 ELSE 0) - (IF i \in B THEN 1 ELSE 0) - borrow
         IN (IF n % 2 = 1 THEN {i} ELSE {})
              \cup SubWithBorrow(A, B, i + 1, IF n < 0 THEN 1 ELSE 0)
BitsSub(A, B) == SubWithBorrow(A, B, 0, 0)

\* A < B for two magnitudes: the highest digit in which they differ is B's
BitsLess(A, B) ==
    /\ A # B
    /\ LET differ == (A \ B) \cup (B \ A)
       IN (CHOOSE i \in differ : \A j \in differ : j <= i) \in B

\* round to nearest, ties to even: the magnitude kept in SignificandBits
\* digits
RoundToDouble(A) ==
    IF A = {} THEN {}
    ELSE LET top == CHOOSE i \in A : \A j \in A : j <= i
             cut == top - (SignificandBits - 1)
             kept == {i \in A : i >= cut}
             up == /\ (cut - 1) \in A
                   /\ (cut \in A \/ \E i \in A : i < cut - 1)
         IN IF up THEN BitsAdd(kept, {cut}) ELSE kept

DoubleZero == [neg |-> FALSE, mag |-> {}]

\* a + b of two doubles
DoubleAdd(a, b) ==
    IF a.neg = b.neg
    THEN LET m == RoundToDouble(BitsAdd(a.mag, b.mag))
         IN IF m = {} THEN DoubleZero ELSE [neg |-> a.neg, mag |-> m]
    ELSE IF a.mag = b.mag THEN DoubleZero
    ELSE IF BitsLess(a.mag, b.mag)
    THEN [neg |-> b.neg, mag |-> RoundToDouble(BitsSub(b.mag, a.mag))]
    ELSE [neg |-> a.neg, mag |-> RoundToDouble(BitsSub(a.mag, b.mag))]

\* Math.abs(a), -a and a - b
DoubleAbs(a) == [neg |-> FALSE, mag |-> a.mag]
DoubleNeg(a) == IF a.mag = {} THEN a ELSE [neg |-> ~a.neg, mag |-> a.mag]
DoubleSub(a, b) == DoubleAdd(a, DoubleNeg(b))

\* the double of a whole number
DoubleOf(n) ==
    [neg |-> n < 0,
     mag |-> {i + FractionBits : i \in {j \in 0..5 : (Abs(n) \div 2^j) % 2 = 1}}]

\* the double nearest to n / 10 for n in -9..9: the digits of 0.1, ..., 0.9
\* as the 14 hexadecimal digits of magnitude * 2^FractionBits
TenthDigits ==
    <<<<1, 9, 9, 9, 9, 9, 9, 9, 9, 9, 9, 9, 9, 10>>,
      <<3, 3, 3, 3, 3, 3, 3, 3, 3, 3, 3, 3, 3, 4>>,
      <<4, 12, 12, 12, 12, 12, 12, 12, 12, 12, 12, 12, 12, 12>>,
      <<6, 6, 6, 6, 6, 6, 6, 6, 6, 6, 6, 6, 6, 8>>,
      <<8, 0, 0, 0, 0, 0, 0, 0, 0, 0, 0, 0, 0, 0>>,
      <<9, 9, 9, 9, 9, 9, 9, 9, 9, 9, 9, 9, 9, 8>>,
      <<11, 3, 3, 3, 3, 3, 3, 3, 3, 3, 3, 3, 3, 0>>,
      <<12, 12, 12, 12, 12, 12, 12, 12, 12, 12, 12, 12, 13, 0>>,
      <<14, 6, 6, 6, 6, 6, 6, 6, 6, 6, 6, 6, 6, 8>>>>
Tenths(n) ==
    LET digits == TenthDigits[Abs(n)]
    IN [neg |-> n < 0,
        mag |-> UNION {{4 * (14 - k) + j :
                          j \in {b \in 0..3 : (digits[k] \div 2^b) % 2 = 1}} :
                       k \in 1..14}]

---------------------------------------------------------------------------
(* getClearingSummary of cleared quantities that are doubles *)

\* .reduce((sum, q) => sum + q, 0) over doubles, in array order
RECURSIVE SumDoubles(_)
SumDoubles(qs) ==
    IF qs = <<>> THEN DoubleZero
    ELSE DoubleAdd(SumDoubles(SubSeq(qs, 1, Len(qs) - 1)), qs[Len(qs)])

ClearedQtys(cs) == [i \in DOMAIN cs |-> cs[i].clearedQty]
AbsClearedQtys(cs) == [i \in DOMAIN cs |-> DoubleAbs(cs[i].clearedQty)]

\* calculateTotalClearedQty
totalClearedQtyOfDoubles(hourlyClears) == SumDoubles(AbsClearedQtys(hourlyClears))

\* longQty
longQtyOfDoubles(hourlyClears) ==
    SumDoubles(ClearedQtys(
        SelectSeq(hourlyClears,
                  LAMBDA c : ~c.clearedQty.neg /\ c.clearedQty.mag # {})))

\* shortQty without Math.abs
shortQtyOfDoublesSigned(hourlyClears) ==
    SumDoubles(ClearedQtys(SelectSeq(hourlyClears, LAMBDA c : c.clearedQty.neg)))

\* shortQty
shortQtyOfDoubles(hourlyClears) ==
    SumDoubles(AbsClearedQtys(SelectSeq(hourlyClears, LAMBDA c : c.clearedQty.neg)))

getClearingSummaryOfDoubles(hourlyClears) ==
    LET totalPnL == calculateTotalPnL(hourlyClears)
        hoursWithPositions ==
            Len(SelectSeq(hourlyClears, LAMBDA c : c.clearedQty.mag # {}))
        hoursWithPnL == Len(SelectSeq(hourlyClears, LAMBDA c : c.pnl # Zero))
    IN [totalPnL |-> totalPnL,
        totalClearedQty |-> totalClearedQtyOfDoubles(hourlyClears),
        longQty |-> longQtyOfDoubles(hourlyClears),
        shortQty |-> shortQtyOfDoubles(hourlyClears),
        hoursWithPositions |-> hoursWithPositions,
        hoursWithPnL |-> hoursWithPnL,
        avgPnLPerHour |-> avgPnLPerHourOf(totalPnL, hoursWithPnL)]

---------------------------------------------------------------------------
(* Inputs *)

\* "2024-11-03T01:00:00.000-05:00": 01:00 before the clocks go back, as
\* getHourStartsForDate and averageRTToHourly print it
T0100CDT == [utc |-> 60, off |-> -5, ms |-> TRUE]
\* "2024-11-03T01:00:00-05:00": the same hour printed without milliseconds
T0100CDTraw == [utc |-> 60, off |-> -5, ms |-> FALSE]
\* "2024-11-03T01:05:00-05:00"
T0105CDTraw == [utc |-> 65, off |-> -5, ms |-> FALSE]
\* "2024-11-03T00:30:00.000-06:00": 01:30 CDT printed with the winter offset
T0130CDTalt == [utc |-> 90, off |-> -6, ms |-> TRUE]
\* "2024-11-03T01:00:00.000-06:00": 01:00 after the clocks went back
T0100CST == [utc |-> 120, off |-> -6, ms |-> TRUE]
\* "2024-11-03T01:00:00-06:00": that hour as the grid prints it, without
\* milliseconds
T0100CSTraw == [utc |-> 120, off |-> -6, ms |-> FALSE]
\* "2024-11-03T08:00:00.000-06:00" and the two samples after it
T0800 == [utc |-> 540, off |-> -6, ms |-> TRUE]
T0805 == [utc |-> 545, off |-> -6, ms |-> TRUE]
T0810 == [utc |-> 550, off |-> -6, ms |-> TRUE]
\* "2024-11-03T09:00:00.000-06:00"
T0900 == [utc |-> 600, off |-> -6, ms |-> TRUE]

Bid(h, s, p, q) == [hourStart |-> h, side |-> s, price |-> p, qtyMWh |-> q]
Price(t, sp, p) ==
    [datetime_beginning_ept |-> t, settlement_point |-> sp,
     settlement_point_price |-> p]

\* the store gives every bid an id of its own
WithIds(bs) ==
    [i \in DOMAIN bs |->
        [id |-> i, hourStart |-> bs[i].hourStart, side |-> bs[i].side,
         price |-> bs[i].price, qtyMWh |-> bs[i].qtyMWh]]

Sides == {"BUY", "SELL"}

RtSamples ==
    {Price(t, sp, p) : t \in {T0105CDTraw, T0130CDTalt, T0100CST},
                       sp \in {"HB_HOUSTON", "HB_NORTH"}, p \in {1, 4}}

\* the samples of "should average 5-minute RT data to hourly"
FixtureSamples ==
    <<Price(T0800, "HB_HOUSTON", 50), Price(T0805, "HB_HOUSTON", 60),
      Price(T0810, "HB_HOUSTON", 70)>>

BidKinds ==
    {Bid(T0100CDT, s, p, q) : s \in Sides, p \in {2, 3}, q \in {1, 2}}
    \cup {Bid(T0100CST, "BUY", 3, 2), Bid(T0100CST, "SELL", 2, 1)}

\* DA price points with the hour printed as order entry prints it and as
\* the proxy passes it on (interval_start_local, without milliseconds)
DaKinds ==
    {Price(t, "HB_HOUSTON", p) : t \in {T0100CDT, T0100CST, T0100CDTraw},
                                 p \in {2, 3}}
    \cup {Price(T0100CSTraw, "HB_HOUSTON", 2)}

RtKinds ==
    {Price(t, "HB_HOUSTON", p) : t \in {T0105CDTraw, T0100CST}, p \in {1, 4}}

\* one hour, its DA price and its RT samples: bids on both sides at the
\* limit price 2
SameHourBids == {Bid(T0100CDT, s, 2, q) : s \in Sides, q \in {1, 2}}
SameHourDa == {Price(T0100CDT, "HB_HOUSTON", p) : p \in {-1, 2, 3}}
SameHourRt == {Price(t, "HB_HOUSTON", p) : t \in {T0105CDTraw, T0130CDTalt}, p \in {1, 4}}

\* one hour holding more bids than the order-entry cap
OverCapBids == {Bid(T0100CDT, "BUY", 2, 1), Bid(T0100CDT, "SELL", 3, 2)}

\* mockBids, mockDAPrices and mockRTPrices of clearing.test.ts
FixtureBids ==
    <<Bid(T0800, "BUY", 60, 100), Bid(T0800, "SELL", 50, 50),
      Bid(T0900, "BUY", 40, 75)>>
FixtureDa == <<Price(T0800, "HB_HOUSTON", 55), Price(T0900, "HB_HOUSTON", 35)>>
FixtureRt == <<Price(T0800, "HB_HOUSTON", 60), Price(T0900, "HB_HOUSTON", 40)>>

Clear(q, p) ==
    [hourStart |-> T0100CDT, daPrice |-> Some(2), avgRtPrice |-> Some(Num(3)),
     clearedQty |-> q, pnl |-> p]
ClearKinds ==
    {Clear(q, p) : q \in {-2, 0, 1, 3}, p \in {Num(-3), Zero, Frac(5, 2)}}

---------------------------------------------------------------------------
(* averageRTToHourly called once on a given array *)

AvgIdle == rtData = <<>> /\ hourlyAverages = <<>> /\ avgPc = "idle"

AvgInit ==
    /\ rtData \in SeqsUpTo(RtSamples, MaxSamples) \cup {FixtureSamples}
    /\ hourlyAverages = <<>>
    /\ avgPc = "ready"

AverageCall ==
    /\ avgPc = "ready"
    /\ hourlyAverages' = averageRTToHourly(rtData)
    /\ avgPc' = "done"
    /\ UNCHANGED rtData

---------------------------------------------------------------------------
(* clearBids called, and called again, on given arrays *)

ClearIdle ==
    /\ inBids = <<>> /\ inDA = <<>> /\ inRT = <<>>
    /\ given = <<<<>>, <<>>, <<>>>>
    /\ outClears = <<>> /\ prevClears = <<>> /\ clearPc = "idle"

\* any bids, DA prices and RT samples, MaxItems array elements in all
InitGeneral ==
    \E nb \in 0..MaxItems : \E nd \in 0..(MaxItems - nb) :
      \E nr \in 0..(MaxItems - nb - nd) :
        /\ inBids \in {WithIds(bs) : bs \in [1..nb -> BidKinds]}
        /\ inDA \in [1..nd -> DaKinds]
        /\ inRT \in [1..nr -> RtKinds]

InitSameHour ==
    /\ inBids \in {WithIds(bs) : bs \in SeqsUpTo(SameHourBids, MaxItems - 1)}
    /\ inDA \in [1..1 -> SameHourDa]
    /\ inRT \in SeqsUpTo(SameHourRt, MaxItems - 1) \ {<<>>}

InitOverCap ==
    /\ \E n \in (MaxBidsPerHour + 1)..(MaxBidsPerHour + OverCap) :
          inBids \in {WithIds(bs) : bs \in [1..n -> OverCapBids]}
    /\ inDA \in {<<Price(T0100CDT, "HB_HOUSTON", p)>> : p \in {2, 3}}
    /\ inRT = <<Price(T0105CDTraw, "HB_HOUSTON", 4)>>

\* two DA price points for one hour, with bids and an RT sample in it
InitDuplicateDa ==
    /\ inBids \in {WithIds(bs) : bs \in SeqsUpTo(SameHourBids, MaxItems - 2)}
    /\ inDA \in [1..2 -> SameHourDa]
    /\ inRT \in [1..1 -> SameHourRt]

InitFixture ==
    /\ inBids = WithIds(FixtureBids)
    /\ \/ inDA = FixtureDa /\ inRT = FixtureRt
       \/ inDA = <<>> /\ inRT = <<>>

ClearInit ==
    /\ InitGeneral \/ InitSameHour \/ InitOverCap \/ InitDuplicateDa \/ InitFixture
    /\ given = <<inBids, inDA, inRT>>
    /\ outClears = <<>>
    /\ prevClears = <<>>
    /\ clearPc = "ready"

\* clearBids is called on the three arrays: the returned array is kept and
\* the three arrays are what the call left of them
ClearBidsCall ==
    /\ clearPc \in {"ready", "called"}
    /\ LET memory == clearBidsInMemory(Memory(inBids, inDA, inRT))
       IN /\ outClears' = memory.hourlyClears
          /\ inBids' = memory.bids
          /\ inDA' = memory.daHourlyPrices
          /\ inRT' = memory.rtFiveMinPrices
    /\ prevClears' = outClears
    /\ clearPc' = IF clearPc = "ready" THEN "called" ELSE "recalled"
    /\ UNCHANGED given

---------------------------------------------------------------------------
(* getClearingSummary called once on a given array *)

SumIdle == sumIn = <<>> /\ summary = <<>> /\ sumPc = "idle"

SumInit ==
    /\ sumIn \in SeqsUpTo(ClearKinds, MaxClears)
                 \cup {clearBids(WithIds(FixtureBids), FixtureDa, FixtureRt)}
    /\ summary = <<>>
    /\ sumPc = "ready"

SummaryCall ==
    /\ sumPc = "ready"
    /\ summary' = getClearingSummary(sumIn)
    /\ sumPc' = "done"
    /\ UNCHANGED sumIn

---------------------------------------------------------------------------
(* getClearingSummary called once on quantities that are doubles *)

\* an hour without an RT average: a cleared quantity and no P&L
DoubleClear(q) ==
    [hourStart |-> T0100CDT, daPrice |-> Some(2), avgRtPrice |-> Null,
     clearedQty |-> q, pnl |-> Zero]

\* -0.9, -0.2, 0.1 and 0.3 MWh, and -2, 0, 1 and 3 MWh
DoubleQtys ==
    {Tenths(n) : n \in {-9, -2, 1, 3}} \cup {DoubleOf(n) : n \in {-2, 0, 1, 3}}

SumDoublesInit ==
    /\ sumIn \in SeqsUpTo({DoubleClear(q) : q \in DoubleQtys}, MaxClears)
    /\ summary = <<>>
    /\ sumPc = "ready"

SummaryCallOnDoubles ==
    /\ sumPc = "ready"
    /\ summary' = getClearingSummaryOfDoubles(sumIn)
    /\ sumPc' = "done"
    /\ UNCHANGED sumIn

---------------------------------------------------------------------------
(* The cutoff calculator, src/utils/time.ts *)

\* A calendar date "YYYY-MM-DD" is its number of days after 2024-11-03, and
\* an instant is its number of minutes after 2024-11-03T05:00:00Z, which is
\* 00:00 of 2024-11-03 on the America/Chicago wall clock.
MinutesPerDay == 1440
CUTOFF_HOUR == 11
CUTOFF_MINUTE == 0
MARKET_TIMEZONE == "America/Chicago"

\* the zones a machine running the program may be set to
HostZones == {"America/Chicago", "UTC", "America/Los_Angeles", "Asia/Tokyo"}

\* UTC offset, in hours, of a zone at an instant
ZoneOffset(zone, utc) ==
    CASE zone = "America/Chicago" -> ChicagoOffset(utc)
      [] zone = "UTC" -> 0
      [] zone = "America/Los_Angeles" -> (IF utc < DstEndUtc + 120 THEN -7 ELSE -8)
      [] zone = "Asia/Tokyo" -> 9

\* what the wall clock of a zone shows at an instant, in minutes from
\* 2024-11-03 00:00
ZoneWallClock(zone, utc) == utc + 300 + 60 * ZoneOffset(zone, utc)

\* the instant at which the wall clock of a zone shows the given minutes,
\* the earlier one when the zone shows them twice
ZoneInstant(zone, wall) ==
    LET summer == wall - 300 - 60 * ZoneOffset(zone, 0)
        winter == wall - 300 - 60 * ZoneOffset(zone, DstEndUtc + 120)
    IN IF ZoneWallClock(zone, summer) = wall THEN summer ELSE winter

\* DateTime.fromISO("YYYY-MM-DD"): 00:00 of that date in the zone of the
\* machine
fromISODate(date, zone) == ZoneInstant(zone, date * MinutesPerDay)

\* dt.toISO() of a DateTime in the market zone
toISO(utc) == [utc |-> utc, off |-> ChicagoOffset(utc), ms |-> TRUE]

\* DateTime.fromISO(tradingDate).setZone(MARKET_TIMEZONE).set({hour, minute,
\* second: 0, millisecond: 0}): the instant is taken in the machine's zone,
\* shown on the market wall clock, and the time of day is replaced there
getCutoffTime(tradingDate, zone) ==
    LET wall == ZoneWallClock(MARKET_TIMEZONE, fromISODate(tradingDate, zone))
        day == wall \div MinutesPerDay
    IN ZoneInstant(MARKET_TIMEZONE,
                   day * MinutesPerDay + 60 * CUTOFF_HOUR + CUTOFF_MINUTE)

cutoffPassed(currentTime, cutoffTime) == currentTime > cutoffTime

\* getCutoffStatus with DateTime.now() = currentTime
getCutoffStatus(tradingDate, currentTime, zone) ==
    LET cutoffTime == getCutoffTime(tradingDate, zone)
        isCutoffPassed == cutoffPassed(currentTime, cutoffTime)
    IN [isCutoffPassed |-> isCutoffPassed,
        cutoffTime |-> toISO(cutoffTime),
        currentTime |-> toISO(currentTime),
        timeToString |->
          IF isCutoffPassed THEN <<"Order entry closed">>
          ELSE <<"Order entry open until",
                 (ZoneWallClock(MARKET_TIMEZONE, cutoffTime) % MinutesPerDay) \div 60,
                 ZoneWallClock(MARKET_TIMEZONE, cutoffTime) % 60, "CT">>]

---------------------------------------------------------------------------
(* getCutoffStatus evaluated again and again while the clock advances *)

\* the instants the clock is read at: around 11:00 on the market wall clock
\* of each day from the day before the first trading date, and early in
\* that day
Instants ==
    {ZoneInstant(MARKET_TIMEZONE, d * MinutesPerDay + w) :
       d \in -1..LastDay, w \in {30, 659, 660, 661}}

ClockIdle == hostZone = "none" /\ now = 0
ClockInit == hostZone \in HostZones /\ now \in Instants

\* time passes
Tick ==
    /\ \E t \in Instants : t > now /\ now' = t
    /\ UNCHANGED hostZone

CutoffIdle == cutoffDate = 0 /\ cutoffStatus = Null /\ hourStarts = Null
CutoffInit ==
    cutoffDate \in 0..LastDay /\ cutoffStatus = Null /\ hourStarts = Null

CutoffEvaluate ==
    /\ cutoffStatus' = Some(getCutoffStatus(cutoffDate, now, hostZone))
    /\ UNCHANGED <<cutoffDate, hourStarts>>

---------------------------------------------------------------------------
(* The application store (zustand with persist) *)

\* getDefaultTradingDate(): "2024-12-01", 28 days after 2024-11-03
DefaultTradingDate == 28

EmptyMarketData == [daHourly |-> <<>>, rtFiveMin |-> <<>>]

initialState ==
    [marketSelection |-> [iso |-> "ercot", settlementPoint |-> "HB_HOUSTON",
                          tradingDate |-> DefaultTradingDate],
     bids |-> <<>>,
     marketData |-> EmptyMarketData,
     hourlyClears |-> <<>>,
     isLoading |-> FALSE,
     error |-> Null]

\* { ...a, ...b } where b has some of the fields of a
Spread(a, b) == [k \in DOMAIN a |-> IF k \in DOMAIN b THEN b[k] ELSE a[k]]

\* setMarketSelection that keeps the results of the previous selection
setMarketSelectionKeepingClears(s, selection) ==
    [s EXCEPT !.marketSelection = Spread(@, selection),
              !.marketData = EmptyMarketData,
              !.error = Null]

setMarketSelection(s, selection) ==
    [s EXCEPT !.marketSelection = Spread(@, selection),
              !.marketData = EmptyMarketData,
              !.hourlyClears = <<>>,
              !.error = Null]

\* state.bids.filter((bid) => bid.hourStart === hourStart)
getBidsForHour(s, hourStart) ==
    SelectSeq(s.bids, LAMBDA b : b.hourStart = hourStart)

MaxBidsError == "Maximum 10 bids per hour allowed"

\* addBid with the cap checked one bid too late
addBidOffByOne(s, bidData, uuid) ==
    LET bid == [id |-> uuid, hourStart |-> bidData.hourStart,
                side |-> bidData.side, price |-> bidData.price,
                qtyMWh |-> bidData.qtyMWh]
    IN IF Len(getBidsForHour(s, bid.hourStart)) > MaxBidsPerHour
       THEN [s EXCEPT !.error = Some(MaxBidsError)]
       ELSE [s EXCEPT !.bids = Append(@, bid), !.error = Null]

\* addBid that leaves the previous error in place when it appends
addBidKeepingError(s, bidData, uuid) ==
    LET bid == [id |-> uuid, hourStart |-> bidData.hourStart,
                side |-> bidData.side, price |-> bidData.price,
                qtyMWh |-> bidData.qtyMWh]
    IN IF Len(getBidsForHour(s, bid.hourStart)) >= MaxBidsPerHour
       THEN [s EXCEPT !.error = Some(MaxBidsError)]
       ELSE [s EXCEPT !.bids = Append(@, bid)]

\* addBid(bidData), with uuid the value of crypto.randomUUID()
addBid(s, bidData, uuid) ==
    LET bid == [id |-> uuid, hourStart |-> bidData.hourStart,
                side |-> bidData.side, price |-> bidData.price,
                qtyMWh |-> bidData.qtyMWh]
    IN IF Len(getBidsForHour(s, bid.hourStart)) >= MaxBidsPerHour
       THEN [s EXCEPT !.error = Some(MaxBidsError)]
       ELSE [s EXCEPT !.bids = Append(@, bid), !.error = Null]

removeBid(s, bidId) ==
    [s EXCEPT !.bids = SelectSeq(@, LAMBDA bid : bid.id # bidId)]

\* the store's clearBids action
storeClearBids(s) == [s EXCEPT !.bids = <<>>]

setMarketData(s, data) == [s EXCEPT !.marketData = Spread(@, data)]

setHourlyClears(s, clears) == [s EXCEPT !.hourlyClears = clears]

setLoading(s, loading) == [s EXCEPT !.isLoading = loading]

setError(s, e) == [s EXCEPT !.error = e]

resetForNewDate(s) ==
    [s EXCEPT !.bids = <<>>,
              !.marketData = EmptyMarketData,
              !.hourlyClears = <<>>,
              !.error = Null]

\* persist: the part of the state written to localStorage under the one
\* name "energy-trading-app"
partialize(s) ==
    [marketSelection |-> s.marketSelection, bids |-> s.bids,
     marketData |-> s.marketData, hourlyClears |-> s.hourlyClears]

\* persist: the state after the page is loaded with the given item (or
\* none) in localStorage
rehydrate(item) ==
    IF item = Null THEN initialState ELSE Spread(initialState, Val(item))

---------------------------------------------------------------------------
(* The store's actions called in any order *)

StoreSettlementPoints == {"HB_HOUSTON", "HB_NORTH"}
StoreSelections ==
    {[settlementPoint |-> sp] : sp \in StoreSettlementPoints}
    \cup {[tradingDate |-> 1]}
StoreBidForms == {Bid(T0100CDT, "BUY", 3, 1), Bid(T0100CST, "SELL", 2, 1)}
StoreDa == <<Price(T0100CDT, "HB_HOUSTON", 2)>>
StoreRt == <<Price(T0105CDTraw, "HB_HOUSTON", 4)>>
\* fetchMarketData stores both series in one call
StoreData == {[daHourly |-> StoreDa, rtFiveMin |-> StoreRt]}
\* a clearing result: one long hour with a profit
StoreClears == <<Clear(1, Num(2))>>
StoreErrors == {Null, Some("Failed to fetch market data")}

\* a persisted item holding one bid fewer than the cap, all for one hour
NearlyFullItem ==
    Some(partialize(
           [initialState EXCEPT
              !.bids = WithIds([i \in 1..(MaxBidsPerHour - 1) |->
                                  Bid(T0100CDT, "BUY", 3, 1)])]))

\* the ids removeBid is called with: an id no bid has, the last stored bid,
\* and the first one of a list of two
RemovableIds(s) ==
    {0} \cup (IF s.bids = <<>> THEN {} ELSE {s.bids[Len(s.bids)].id})
        \cup (IF Len(s.bids) = 2 THEN {s.bids[1].id} ELSE {})

StoreIdle == state = <<>> /\ storage = Null /\ nextId = 0

\* the page is loaded with nothing or with an item in localStorage; the
\* values crypto.randomUUID() returns are numbered from nextId and are all
\* different from the ids in the item
StoreInit ==
    /\ storage \in {Null, NearlyFullItem}
    /\ state = rehydrate(storage)
    /\ nextId = MaxBidsPerHour

\* the page is loaded for the first time
StoreInitFresh ==
    /\ storage = Null
    /\ state = rehydrate(storage)
    /\ nextId = MaxBidsPerHour

\* set(...) of the persist middleware: the new state is stored and its
\* persisted part is written to localStorage
Set(s) == state' = s /\ storage' = Some(partialize(s))

SetMarketSelection ==
    /\ \E selection \in StoreSelections : Set(setMarketSelection(state, selection))
    /\ UNCHANGED nextId

AddBid ==
    /\ nextId < MaxBidsPerHour + MaxNewBids
    /\ \E bidData \in StoreBidForms : Set(addBid(state, bidData, nextId))
    /\ nextId' = nextId + 1

RemoveBid ==
    /\ \E bidId \in RemovableIds(state) : Set(removeBid(state, bidId))
    /\ UNCHANGED nextId

StoreClearBids == Set(storeClearBids(state)) /\ UNCHANGED nextId

SetMarketData ==
    /\ \E data \in StoreData : Set(setMarketData(state, data))
    /\ UNCHANGED nextId

SetHourlyClears ==
    /\ \E clears \in {<<>>, StoreClears} : Set(setHourlyClears(state, clears))
    /\ UNCHANGED nextId

SetLoading ==
    /\ \E loading \in BOOLEAN : Set(setLoading(state, loading))
    /\ UNCHANGED nextId

SetError ==
    /\ \E e \in StoreErrors : Set(setError(state, e))
    /\ UNCHANGED nextId

ResetForNewDate == Set(resetForNewDate(state)) /\ UNCHANGED nextId

\* the page is loaded again
Reload ==
    /\ state' = rehydrate(storage)
    /\ UNCHANGED <<storage, nextId>>

---------------------------------------------------------------------------
(* The components: OrderEntry, MarketControls, ClearingTable *)

HoursPerDay == 24

\* getHourStartsForDate with the machine in the given zone
getHourStartsForDate(tradingDate, zone) ==
    LET wall == ZoneWallClock(MARKET_TIMEZONE, fromISODate(tradingDate, zone))
        startOfDay == ZoneInstant(MARKET_TIMEZONE,
                                  (wall \div MinutesPerDay) * MinutesPerDay)
    IN [i \in 1..HoursPerDay |-> toISO(startOfDay + 60 * (i - 1))]

\* getHourStartsForDate(tradingDate) is called
HourStartsEvaluate ==
    /\ hourStarts' = Some(getHourStartsForDate(cutoffDate, hostZone))
    /\ UNCHANGED <<cutoffDate, cutoffStatus>>

\* OrderEntry renders: isOrderEntryDisabled = cutoffStatus.isCutoffPassed,
\* with the clock read during the render
renderOrderEntry(s, currentTime, zone) ==
    getCutoffStatus(s.marketSelection.tradingDate, currentTime, zone).isCutoffPassed

\* the values a user submits: the second or third hour offered, one side,
\* price and quantity
FormValues(s, zone) ==
    {Bid(getHourStartsForDate(s.marketSelection.tradingDate, zone)[i], "BUY", 3, 1) :
       i \in {2, 3}}

UiIdle == isOrderEntryDisabled = FALSE /\ effectPending = FALSE

\* OrderEntry is mounted: its first render
OrderEntryInit ==
    /\ isOrderEntryDisabled = renderOrderEntry(state, now, hostZone)
    /\ effectPending = FALSE

\* OrderEntry renders again
OrderEntryRender ==
    /\ isOrderEntryDisabled' = renderOrderEntry(state, now, hostZone)
    /\ UNCHANGED <<storeVars, clockVars, effectPending>>

\* the clock advances while the page shows its latest render
ClockAdvance == Tick /\ UNCHANGED <<storeVars, isOrderEntryDisabled, effectPending>>

\* handleSubmit, reachable while the form is rendered enabled; the store
\* change makes OrderEntry render again
HandleSubmit ==
    /\ ~isOrderEntryDisabled
    /\ nextId < MaxBidsPerHour + MaxNewBids
    /\ \E values \in FormValues(state, hostZone) :
         IF Len(getBidsForHour(state, values.hourStart)) >= MaxBidsPerHour
         THEN UNCHANGED <<storeVars, isOrderEntryDisabled>>
         ELSE /\ Set(addBid(state, values, nextId))
              /\ nextId' = nextId + 1
              /\ isOrderEntryDisabled' = renderOrderEntry(state', now, hostZone)
    /\ UNCHANGED <<clockVars, effectPending>>

\* handleRemoveBid of a row, reachable while the table is rendered enabled
HandleRemoveBid ==
    /\ ~isOrderEntryDisabled
    /\ \E bidId \in RemovableIds(state) \ {0} : Set(removeBid(state, bidId))
    /\ isOrderEntryDisabled' = renderOrderEntry(state', now, hostZone)
    /\ UNCHANGED <<nextId, clockVars, effectPending>>

\* MarketControls.handleDateChange: four store calls in one event handler
handleDateChange(s, dateString) ==
    setError(
      setHourlyClears(
        setMarketData(setMarketSelection(s, [tradingDate |-> dateString]),
                      EmptyMarketData),
        <<>>),
      Null)

HandleDateChange ==
    /\ \E dateString \in 0..LastDay : Set(handleDateChange(state, dateString))
    /\ isOrderEntryDisabled' = renderOrderEntry(state', now, hostZone)
    /\ UNCHANGED <<nextId, clockVars, effectPending>>

\* the ClearingTable effect body, also handleRecalculate
recalculate(s) ==
    IF Len(s.bids) > 0
       /\ (Len(s.marketData.daHourly) > 0 \/ Len(s.marketData.rtFiveMin) > 0)
    THEN setHourlyClears(s, clearBids(s.bids, s.marketData.daHourly,
                                      s.marketData.rtFiveMin))
    ELSE s

\* useEffect(..., [bids, marketData, setHourlyClears]) runs after a render
\* in which bids or marketData is a new object
ClearingTableEffect ==
    /\ effectPending
    /\ IF recalculate(state) # state THEN Set(recalculate(state))
       ELSE UNCHANGED <<state, storage>>
    /\ effectPending' = FALSE
    /\ UNCHANGED <<nextId, clockVars, isOrderEntryDisabled>>

\* handleRecalculate: the Recalculate button
HandleRecalculate ==
    /\ IF recalculate(state) # state THEN Set(recalculate(state))
       ELSE UNCHANGED <<state, storage>>
    /\ UNCHANGED <<nextId, clockVars, uiVars>>

\* a store action called while ClearingTable is mounted: the effect is due
\* when the action made a new bids array or a new marketData object
WithClearingTable(action, newDeps) ==
    /\ action
    /\ effectPending' = (effectPending \/ newDeps)
    /\ UNCHANGED <<clockVars, isOrderEntryDisabled>>

---------------------------------------------------------------------------
(* The page: TradingApp, the store's initializeClientDate and            *)
(* MarketControls.fetchMarketData                                        *)

\* the dates the DatePicker is given
PageDates == (0..LastDay) \cup {DefaultTradingDate}

\* MarketControls.handleSettlementPointChange: four store calls in one
\* event handler
handleSettlementPointChange(s, value) ==
    setError(
      setHourlyClears(
        setMarketData(setMarketSelection(s, [settlementPoint |-> value]),
                      EmptyMarketData),
        <<>>),
      Null)

\* getCurrentMarketTime().minus({ days: 1 }).toISODate()
clientDate(currentTime) ==
    ZoneWallClock(MARKET_TIMEZONE, currentTime) \div MinutesPerDay - 1

\* the body of the promise callback of initializeClientDate
initializeClientDate(s, currentTime) ==
    IF s.marketSelection.tradingDate = DefaultTradingDate
    THEN [s EXCEPT !.marketSelection.tradingDate = clientDate(currentTime)]
    ELSE s

\* what the grid holds for a selection: one DA hour and one RT sample of
\* the selected date at the selected settlement point
HourOfDate(date, minute) ==
    LET utc == ZoneInstant(MARKET_TIMEZONE, date * MinutesPerDay + minute)
    IN [utc |-> utc, off |-> ChicagoOffset(utc), ms |-> FALSE]
DaOf(selection) ==
    <<Price(HourOfDate(selection.tradingDate, 180), selection.settlementPoint, 2)>>
RtOf(selection) ==
    <<Price(HourOfDate(selection.tradingDate, 185), selection.settlementPoint, 4)>>

\* what a promise rejects with: an Error with its message, or a value that
\* is no Error
FetchFailed == [isError |-> TRUE, message |-> "Failed to fetch"]
NotAnError == [isError |-> FALSE, value |-> "offline"]
\* the SyntaxError of response.json() on the body <html>not json
NotJson ==
    [isError |-> TRUE,
     message |-> "Unexpected token '<', \"<html>not json\" is not valid JSON"]

\* how response.json() will end, which the body the response came with
\* decides: it rejects, or resolves with an object whose data is missing,
\* the rows or no rows
JsonOutcomes(rows) ==
    {[parsed |-> FALSE, reason |-> NotJson]}
    \cup {[parsed |-> TRUE, data |-> d] : d \in {Null, Some(rows), Some(<<>>)}}

\* the responses of the proxy: not ok with a status text or without one,
\* or ok
Responses(rows) ==
    {[ok |-> FALSE, statusText |-> t, json |-> [parsed |-> FALSE, reason |-> NotJson]] :
       t \in {"Bad Gateway", ""}}
    \cup {[ok |-> TRUE, statusText |-> "OK", json |-> j] : j \in JsonOutcomes(rows)}

\* how an awaited fetch(...) ends: it rejects or it resolves with a response
FetchOutcomes(rows) ==
    {[rejected |-> TRUE, reason |-> e] : e \in {FetchFailed, NotAnError}}
    \cup {[rejected |-> FALSE, response |-> r] : r \in Responses(rows)}

\* the value of the const daResponse (rtResponse) after the await, or null
\* when the await threw
responseOf(outcome) ==
    IF outcome.rejected THEN Null ELSE Some(outcome.response)

\* the request passed both the response.ok test and await response.json()
received(response) ==
    response # Null /\ Val(response).ok /\ Val(response).json.parsed

\* daData.data ?? []
dataOf(response) ==
    LET data == Val(response).json.data
    IN IF data = Null THEN <<>> ELSE Val(data)

\* the response arrived and passed the response.ok test
passed(response) == response # Null /\ Val(response).ok

\* what the try block throws when await fetch(...) did not give a response
\* that is ok: the rejection of fetch, or
\* new Error(`Failed to fetch DA data: ${daResponse.statusText}`)
thrownFor(dataset, outcome) ==
    IF outcome.rejected THEN outcome.reason
    ELSE [isError |-> TRUE,
          message |-> "Failed to fetch " \o dataset \o " data: "
                        \o outcome.response.statusText]

\* err instanceof Error ? err.message : "Failed to fetch market data"
errorMessage(err) ==
    IF err.isError THEN err.message ELSE "Failed to fetch market data"

\* fetchMarketData up to its first await
fetchMarketDataStart(s) == setError(setLoading(s, TRUE), Null)

\* the catch block followed by the finally block, leaving isLoading set
fetchMarketDataCatchStillLoading(s, message) == setError(s, Some(message))

\* the catch block followed by the finally block
fetchMarketDataCatch(s, message) ==
    setLoading(setError(s, Some(message)), FALSE)

\* the end of the try block followed by the finally block
fetchMarketDataStore(s, da, rt) ==
    setLoading(setMarketData(s, [daHourly |-> dataOf(da), rtFiveMin |-> dataOf(rt)]),
               FALSE)

PageIdle ==
    /\ initPc = "idle" /\ pickedDate = Null /\ fetchPc = "idle"
    /\ fetchFor = Null /\ daResponse = Null /\ rtResponse = Null

\* the clock while the page is open: some time of the day after one of the
\* trading dates
PageInstants ==
    {ZoneInstant(MARKET_TIMEZONE, (d + 1) * MinutesPerDay + 660) : d \in 0..LastDay}

\* the page is loaded for the first time: TradingApp mounts and its effect
\* calls initializeClientDate, whose dynamic import is pending
PageInit ==
    /\ StoreInitFresh /\ UiIdle
    /\ hostZone = "UTC" /\ now \in PageInstants
    /\ initPc = "pending" /\ pickedDate = Null /\ fetchPc = "idle"
    /\ fetchFor = Null /\ daResponse = Null /\ rtResponse = Null

\* the import of initializeClientDate resolves
InitializeClientDate ==
    /\ initPc = "pending"
    /\ IF state.marketSelection.tradingDate = DefaultTradingDate
       THEN Set(initializeClientDate(state, now))
       ELSE UNCHANGED <<state, storage>>
    /\ initPc' = "done"
    /\ UNCHANGED <<nextId, clockVars, uiVars, pickedDate, fetchPc, fetchFor,
                   daResponse, rtResponse>>

\* the user picks a date in the DatePicker
PickDate ==
    /\ \E dateString \in PageDates :
         /\ Set(handleDateChange(state, dateString))
         /\ pickedDate' = Some(dateString)
    /\ UNCHANGED <<nextId, clockVars, uiVars, initPc, fetchPc, fetchFor,
                   daResponse, rtResponse>>

\* the user picks a settlement point in the Select
PickSettlementPoint ==
    /\ \E value \in StoreSettlementPoints :
         Set(handleSettlementPointChange(state, value))
    /\ UNCHANGED <<nextId, clockVars, uiVars, pageVars>>

\* Run Simulation is clicked; the button takes no click while isLoading.
\* The function runs to its first await with the marketSelection of the
\* render it was created in.
FetchMarketData ==
    /\ ~state.isLoading
    /\ Set(fetchMarketDataStart(state))
    /\ fetchPc' = "da"
    /\ fetchFor' = Some(state.marketSelection)
    /\ daResponse' = Null /\ rtResponse' = Null
    /\ UNCHANGED <<nextId, clockVars, uiVars, initPc, pickedDate>>

\* await fetch(DA) ends: fetchMarketData runs on to await daResponse.json(),
\* or through the catch and finally blocks to its end
DaResponds ==
    /\ fetchPc = "da"
    /\ \E outcome \in FetchOutcomes(DaOf(Val(fetchFor))) :
         /\ daResponse' = responseOf(outcome)
         /\ IF passed(responseOf(outcome))
            THEN fetchPc' = "daJson" /\ UNCHANGED <<state, storage>>
            ELSE /\ fetchPc' = "idle"
                 /\ Set(fetchMarketDataCatch(
                          state, errorMessage(thrownFor("DA", outcome))))
    /\ UNCHANGED <<nextId, clockVars, uiVars, initPc, pickedDate, fetchFor,
                   rtResponse>>

\* await daResponse.json() ends: fetchMarketData issues the RT request and
\* awaits it, or runs through the catch and finally blocks to its end
DaJson ==
    /\ fetchPc = "daJson"
    /\ IF received(daResponse)
       THEN fetchPc' = "rt" /\ UNCHANGED <<state, storage>>
       ELSE /\ fetchPc' = "idle"
            /\ Set(fetchMarketDataCatch(
                     state, errorMessage(Val(daResponse).json.reason)))
    /\ UNCHANGED <<nextId, clockVars, uiVars, initPc, pickedDate, fetchFor,
                   daResponse, rtResponse>>

\* await fetch(RT) ends: fetchMarketData runs on to await rtResponse.json(),
\* or through the catch and finally blocks to its end
RtResponds ==
    /\ fetchPc = "rt"
    /\ \E outcome \in FetchOutcomes(RtOf(Val(fetchFor))) :
         /\ rtResponse' = responseOf(outcome)
         /\ IF passed(responseOf(outcome))
            THEN fetchPc' = "rtJson" /\ UNCHANGED <<state, storage>>
            ELSE /\ fetchPc' = "idle"
                 /\ Set(fetchMarketDataCatch(
                          state, errorMessage(thrownFor("RT", outcome))))
    /\ UNCHANGED <<nextId, clockVars, uiVars, initPc, pickedDate, fetchFor,
                   daResponse>>

\* await rtResponse.json() ends: fetchMarketData stores both arrays, or
\* goes through the catch block, and ends
RtJson ==
    /\ fetchPc = "rtJson"
    /\ IF received(rtResponse)
       THEN Set(fetchMarketDataStore(state, daResponse, rtResponse))
       ELSE Set(fetchMarketDataCatch(
                  state, errorMessage(Val(rtResponse).json.reason)))
    /\ fetchPc' = "idle"
    /\ UNCHANGED <<nextId, clockVars, uiVars, initPc, pickedDate, fetchFor,
                   daResponse, rtResponse>>

\* the page is loaded again: the store is rehydrated, a running
\* fetchMarketData is gone and TradingApp mounts again
PageReload ==
    /\ state' = rehydrate(storage)
    /\ initPc' = "pending"
    /\ fetchPc' = "idle" /\ fetchFor' = Null
    /\ daResponse' = Null /\ rtResponse' = Null
    /\ UNCHANGED <<storage, nextId, clockVars, uiVars, pickedDate>>

---------------------------------------------------------------------------
(* The proxy's retry loop, src/app/api/grid/[dataset]/route.ts *)

\* fetchWithRetry(3)
MaxRetries == 3
\* baseMs
BackoffBaseMs == 1200

\* a Retry-After header: absent, the empty string, a number of seconds (a
\* fraction), an HTTP date (its distance from Date.now() in ms), or text
\* that is neither
RetryAfterHeaders ==
    {[kind |-> "absent"], [kind |-> "empty"], [kind |-> "garbage"],
     [kind |-> "seconds", seconds |-> Num(2)],
     [kind |-> "seconds", seconds |-> Frac(1, 2000)],
     [kind |-> "seconds", seconds |-> Num(-1)],
     [kind |-> "date", fromNowMs |-> 3000],
     [kind |-> "date", fromNowMs |-> -5000]}

\* Math.ceil(x) of a fraction x
Ceil(x) == -((-x.num) \div x.den)
Max(a, b) == IF a >= b THEN a ELSE b

\* getBackoffMs with the same default delay after every attempt
getBackoffMsFlat(response, k) ==
    LET retryAfter == response.retryAfter IN
    IF retryAfter.kind = "seconds"
    THEN Max(0, Ceil(NumMul(retryAfter.seconds, Num(1000))))
    ELSE IF retryAfter.kind = "date"
    THEN Max(0, retryAfter.fromNowMs)
    ELSE BackoffBaseMs

getBackoffMs(response, k) ==
    LET retryAfter == response.retryAfter IN
    IF retryAfter.kind = "seconds"
    THEN Max(0, Ceil(NumMul(retryAfter.seconds, Num(1000))))
    ELSE IF retryAfter.kind = "date"
    THEN Max(0, retryAfter.fromNowMs)
    ELSE BackoffBaseMs * (k + 1)

\* what one upstream request ends in: a response, or fetch rejecting: with
\* an Error (a network error, or the reason of the 15 s
\* AbortSignal.timeout), or with a value that is no Error
UpstreamResponses ==
    {[status |-> 429, retryAfter |-> h, body |-> "text"] : h \in RetryAfterHeaders}
    \cup {[status |-> st, retryAfter |-> [kind |-> "absent"], body |-> "text"] :
             st \in {404, 500}}
    \cup {[status |-> st, retryAfter |-> [kind |-> "absent"], body |-> b] :
             st \in {200, 203}, b \in {"json", "malformed"}}
UpstreamErrors ==
    {[isError |-> TRUE, name |-> "TypeError", message |-> "fetch failed"],
     [isError |-> TRUE, name |-> "TimeoutError",
      message |-> "The operation was aborted due to timeout"],
     [isError |-> FALSE, value |-> "a string"]}

\* err instanceof Error ? err : new Error(String(err))
toError(err) ==
    IF err.isError THEN [name |-> err.name, message |-> err.message]
    ELSE [name |-> "Error", message |-> err.value]
UnknownError ==
    [name |-> "Error", message |-> "Unknown error during fetchWithRetry"]

\* attempt < maxRetries, taken one attempt too far
retryAllowedInclusive(k, maxRetries) == k <= maxRetries

\* attempt < maxRetries: another attempt may follow this one
retryAllowed(k, maxRetries) == k < maxRetries

RetryIdle ==
    /\ retryPc = "idle" /\ attempt = 0 /\ attemptsUsed = 0
    /\ lastError = Null /\ retryResult = Null /\ delayMs = 0 /\ res = Null
    /\ proxyResponse = Null

\* GET is about to call fetchWithRetry(3)
RetryInit ==
    /\ retryPc = "call" /\ attempt = 0 /\ attemptsUsed = 0
    /\ lastError = Null /\ retryResult = Null /\ delayMs = 0 /\ res = Null
    /\ proxyResponse = Null

\* fetchWithRetry(3) is called and runs to its first await: attempt = 0,
\* attemptsUsed++ and the first request is issued
RetryCall ==
    /\ retryPc = "call"
    /\ attemptsUsed' = attemptsUsed + 1
    /\ retryPc' = "fetch"
    /\ UNCHANGED <<attempt, lastError, retryResult, delayMs, res, proxyResponse>>

\* the awaited request ends, in a response or in fetch throwing, and the
\* loop body runs on to its sleep, return or throw
RetryAttempt ==
    /\ retryPc = "fetch"
    /\ \/ \E response \in UpstreamResponses :
            /\ res' = Some(response)
            /\ IF response.status = 429 /\ retryAllowed(attempt, MaxRetries)
               THEN /\ delayMs' = getBackoffMs(response, attempt)
                    /\ retryPc' = "sleep"
                    /\ UNCHANGED <<lastError, retryResult>>
               ELSE /\ retryResult' = Some(response)
                    /\ retryPc' = "returned"
                    /\ UNCHANGED <<lastError, delayMs>>
       \/ \E err \in UpstreamErrors :
            /\ res' = Null
            /\ lastError' = Some(toError(err))
            /\ IF retryAllowed(attempt, MaxRetries)
               THEN /\ delayMs' = BackoffBaseMs * (attempt + 1)
                    /\ retryPc' = "sleep"
                    /\ UNCHANGED retryResult
               ELSE /\ retryResult' = Some(toError(err))
                    /\ retryPc' = "thrown"
                    /\ UNCHANGED delayMs
    /\ UNCHANGED <<attempt, attemptsUsed, proxyResponse>>

\* the sleep ends: continue, attempt++, and the loop condition
\* attempt <= maxRetries, then attemptsUsed++ and the next request is
\* issued; after the loop, throw lastError ?? new Error(...)
RetrySleepEnds ==
    /\ retryPc = "sleep"
    /\ attempt' = attempt + 1
    /\ IF attempt + 1 <= MaxRetries
       THEN /\ attemptsUsed' = attemptsUsed + 1
            /\ retryPc' = "fetch"
            /\ UNCHANGED retryResult
       ELSE /\ retryPc' = "thrown"
            /\ retryResult' = IF lastError # Null THEN lastError
                              ELSE Some(UnknownError)
            /\ UNCHANGED attemptsUsed
    /\ res' = Null
    /\ UNCHANGED <<lastError, delayMs, proxyResponse>>

\* response.ok: a status from 200 to 299
ok(response) == response.status \in 200..299

\* what GET answers with: a status, what the body holds, and the
\* X-Retry-Attempts header or null
InternalServerError ==
    [status |-> 500, body |-> "Internal server error", retryAttempts |-> Null]

\* GET that answers an OK upstream response with the upstream status
answerPassingStatus(outcome, upstream, requests) ==
    IF outcome = "thrown" THEN InternalServerError
    ELSE IF ~ok(upstream)
    THEN [status |-> upstream.status, body |-> "GridStatus error",
          retryAttempts |-> Null]
    ELSE IF upstream.body # "json" THEN InternalServerError
    ELSE [status |-> upstream.status, body |-> "data", retryAttempts |-> Some(requests)]

\* GET after fetchWithRetry(3): the error answer for a response that is not
\* OK, the transformed data (NextResponse.json without a status, so 200) for
\* one whose body is the JSON expected, and the catch block's 500 when
\* fetchWithRetry threw or response.json() or the transformation throws
answer(outcome, upstream, requests) ==
    IF outcome = "thrown" THEN InternalServerError
    ELSE IF ~ok(upstream)
    THEN [status |-> upstream.status, body |-> "GridStatus error",
          retryAttempts |-> Null]
    ELSE IF upstream.body # "json" THEN InternalServerError
    ELSE [status |-> 200, body |-> "data", retryAttempts |-> Some(requests)]

\* the rest of GET, once fetchWithRetry has returned or thrown
ProxyAnswer ==
    /\ retryPc \in {"returned", "thrown"}
    /\ proxyResponse = Null
    /\ proxyResponse' = Some(answer(retryPc, Val(retryResult), attemptsUsed))
    /\ UNCHANGED <<retryPc, attempt, attemptsUsed, lastError, retryResult,
                   delayMs, res>>

---------------------------------------------------------------------------
(* Specifications *)

\* the variables of the store, the components, the clock and the proxy
\* while none of them is in use
AppIdle ==
    ClockIdle /\ CutoffIdle /\ StoreIdle /\ UiIdle /\ RetryIdle /\ PageIdle
appVars == <<clockVars, cutoffVars, storeVars, uiVars, retryVars, pageVars>>

InitAverage ==
    running = "averageRTToHourly" /\ AvgInit /\ ClearIdle /\ SumIdle /\ AppIdle
AvgNext ==
    running = "averageRTToHourly" /\ AverageCall
    /\ UNCHANGED <<running, clearVars, sumVars, appVars>>
SpecAverage == InitAverage /\ [][AvgNext]_vars

InitClear ==
    running = "clearBids" /\ ClearInit /\ AvgIdle /\ SumIdle /\ AppIdle
ClearNext ==
    running = "clearBids" /\ ClearBidsCall
    /\ UNCHANGED <<running, avgVars, sumVars, appVars>>
SpecClear == InitClear /\ [][ClearNext]_vars

InitSummary ==
    running = "getClearingSummary" /\ SumInit /\ AvgIdle /\ ClearIdle /\ AppIdle
SumNext ==
    running = "getClearingSummary" /\ SummaryCall
    /\ UNCHANGED <<running, avgVars, clearVars, appVars>>
SpecSummary == InitSummary /\ [][SumNext]_vars

InitSummaryDoubles ==
    /\ running = "getClearingSummary of doubles"
    /\ SumDoublesInit /\ AvgIdle /\ ClearIdle /\ AppIdle
SumDoublesNext ==
    running = "getClearingSummary of doubles" /\ SummaryCallOnDoubles
    /\ UNCHANGED <<running, avgVars, clearVars, appVars>>
SpecSummaryDoubles == InitSummaryDoubles /\ [][SumDoublesNext]_vars

InitCutoff ==
    /\ running = "getCutoffStatus"
    /\ ClockInit /\ CutoffInit
    /\ AvgIdle /\ ClearIdle /\ SumIdle /\ StoreIdle /\ UiIdle /\ RetryIdle
    /\ PageIdle
CutoffNext ==
    /\ running = "getCutoffStatus"
    /\ \/ Tick /\ UNCHANGED cutoffVars
       \/ CutoffEvaluate /\ UNCHANGED clockVars
       \/ HourStartsEvaluate /\ UNCHANGED clockVars
    /\ UNCHANGED <<running, avgVars, clearVars, sumVars, storeVars, uiVars,
                   retryVars, pageVars>>
SpecCutoff == InitCutoff /\ [][CutoffNext]_vars

InitStore ==
    /\ running = "useAppStore"
    /\ StoreInit
    /\ AvgIdle /\ ClearIdle /\ SumIdle /\ ClockIdle /\ CutoffIdle /\ UiIdle
    /\ RetryIdle /\ PageIdle
StoreNext ==
    /\ running = "useAppStore"
    /\ \/ SetMarketSelection \/ AddBid \/ RemoveBid \/ StoreClearBids
       \/ SetMarketData \/ SetHourlyClears \/ SetLoading \/ SetError
       \/ ResetForNewDate \/ Reload
    /\ UNCHANGED <<running, avgVars, clearVars, sumVars, clockVars, cutoffVars,
                   uiVars, retryVars, pageVars>>
SpecStore == InitStore /\ [][StoreNext]_vars

\* OrderEntry and the date picker, used while the clock advances
InitOrderEntry ==
    /\ running = "OrderEntry"
    /\ ClockInit /\ StoreInitFresh /\ OrderEntryInit
    /\ AvgIdle /\ ClearIdle /\ SumIdle /\ CutoffIdle /\ RetryIdle /\ PageIdle
OrderEntryNext ==
    /\ running = "OrderEntry"
    /\ \/ ClockAdvance \/ OrderEntryRender \/ HandleSubmit \/ HandleRemoveBid
       \/ HandleDateChange
    /\ UNCHANGED <<running, avgVars, clearVars, sumVars, cutoffVars, retryVars,
                   pageVars>>
SpecOrderEntry == InitOrderEntry /\ [][OrderEntryNext]_vars

\* ClearingTable mounted while the store's bids and market data change
InitClearingTable ==
    /\ running = "ClearingTable"
    /\ StoreInitFresh /\ isOrderEntryDisabled = FALSE /\ effectPending = TRUE
    /\ AvgIdle /\ ClearIdle /\ SumIdle /\ ClockIdle /\ CutoffIdle /\ RetryIdle
    /\ PageIdle
ClearingTableNext ==
    /\ running = "ClearingTable"
    /\ \/ WithClearingTable(AddBid, state'.bids # state.bids)
       \/ WithClearingTable(RemoveBid, TRUE)
       \/ WithClearingTable(StoreClearBids, TRUE)
       \/ WithClearingTable(SetMarketData, TRUE)
       \/ WithClearingTable(SetMarketSelection, TRUE)
       \/ ClearingTableEffect \/ HandleRecalculate
    /\ UNCHANGED <<running, avgVars, clearVars, sumVars, cutoffVars, retryVars,
                   pageVars>>
SpecClearingTable == InitClearingTable /\ [][ClearingTableNext]_vars

\* one call of fetchWithRetry; every upstream request ends (in a response,
\* an error or the 15 s timeout) and every sleep ends
InitRetry ==
    /\ running = "GET"
    /\ RetryInit
    /\ AvgIdle /\ ClearIdle /\ SumIdle /\ ClockIdle /\ CutoffIdle /\ StoreIdle
    /\ UiIdle /\ PageIdle
RetryNext ==
    /\ running = "GET"
    /\ RetryCall \/ RetryAttempt \/ RetrySleepEnds \/ ProxyAnswer
    /\ UNCHANGED <<running, avgVars, clearVars, sumVars, clockVars, cutoffVars,
                   storeVars, uiVars, pageVars>>
SpecRetry == InitRetry /\ [][RetryNext]_vars /\ WF_vars(RetryNext)

\* the page open in a browser: the user picks dates and settlement points,
\* runs the simulation and loads the page again, while the promise of
\* initializeClientDate and the two requests of fetchMarketData are pending
InitTradingApp ==
    /\ running = "TradingApp"
    /\ PageInit
    /\ AvgIdle /\ ClearIdle /\ SumIdle /\ CutoffIdle /\ RetryIdle
TradingAppNext ==
    /\ running = "TradingApp"
    /\ \/ InitializeClientDate \/ PickDate \/ PickSettlementPoint
       \/ FetchMarketData \/ DaResponds \/ DaJson \/ RtResponds \/ RtJson
       \/ PageReload
    /\ UNCHANGED <<running, avgVars, clearVars, sumVars, cutoffVars, retryVars>>
SpecTradingApp == InitTradingApp /\ [][TradingAppNext]_vars

Init ==
    \/ InitAverage \/ InitClear \/ InitSummary \/ InitSummaryDoubles
    \/ InitCutoff \/ InitStore \/ InitOrderEntry \/ InitClearingTable
    \/ InitRetry \/ InitTradingApp
Next ==
    \/ AvgNext \/ ClearNext \/ SumNext \/ SumDoublesNext \/ CutoffNext
    \/ StoreNext \/ OrderEntryNext \/ ClearingTableNext \/ RetryNext
    \/ TradingAppNext
Spec == Init /\ [][Next]_vars

---------------------------------------------------------------------------
(* What the claims speak of *)

\* the sum of f[i] over the indices i in S
RECURSIVE SumOver(_, _)
SumOver(S, f) ==
    IF S = {} THEN 0
    ELSE LET i == CHOOSE i \in S : TRUE IN f[i] + SumOver(S \ {i}, f)

\* the start of the market-local clock hour holding an instant, as an
\* ISO string with milliseconds and Chicago's offset
ClockHourStart(ts) ==
    LET h == (ts.utc \div 60) * 60
    IN [utc |-> h, off |-> (IF h < 120 THEN -5 ELSE -6), ms |-> TRUE]

Called == clearPc \in {"called", "recalled"}
BidHours == {inBids[i].hourStart : i \in DOMAIN inBids}
DaHours == {inDA[i].datetime_beginning_ept : i \in DOMAIN inDA}
OutHours == {outClears[i].hourStart : i \in DOMAIN outClears}
BidsAt(h) == {i \in DOMAIN inBids : inBids[i].hourStart = h}
QtyOf == [i \in DOMAIN inBids |-> inBids[i].qtyMWh]
HourStartsOf(clears) == [i \in DOMAIN clears |-> clears[i].hourStart]

---------------------------------------------------------------------------
(* Claims about clearBids, under SpecClear *)

\* C1: in every output hour that has a DA price p, whatever the number of
\* bids in the hour, clearedQty is the sum of the full quantities of the
\* BUY bids priced at or above p minus the sum of the full quantities of
\* the SELL bids priced at or below p.
C1_ClearingRule ==
    Called =>
      \A k \in DOMAIN outClears :
        LET r == outClears[k] IN
        r.daPrice # Null =>
          LET p == Val(r.daPrice)
              buys == {i \in BidsAt(r.hourStart) :
                         inBids[i].side = "BUY" /\ inBids[i].price >= p}
              sells == {i \in BidsAt(r.hourStart) :
                          inBids[i].side = "SELL" /\ inBids[i].price <= p}
          IN r.clearedQty = SumOver(buys, QtyOf) - SumOver(sells, QtyOf)

\* an hour with more than ten bids and a DA price: a BUY bid priced exactly
\* at the DA price has cleared and a SELL bid priced above it has not
C1_Witness ==
    /\ Called
    /\ \E k \in DOMAIN outClears :
         LET r == outClears[k] IN
         /\ r.daPrice # Null
         /\ Cardinality(BidsAt(r.hourStart)) > MaxBidsPerHour
         /\ \E i \in BidsAt(r.hourStart) :
              inBids[i].side = "BUY" /\ inBids[i].price = Val(r.daPrice)
         /\ \E i \in BidsAt(r.hourStart) :
              inBids[i].side = "SELL" /\ inBids[i].price > Val(r.daPrice)
         /\ r.clearedQty > 0

\* C2: in every output hour, pnl = clearedQty * (avgRtPrice - daPrice) when
\* both prices are present and clearedQty is not 0, and pnl = 0 otherwise.
C2_PnlFormula ==
    Called =>
      \A k \in DOMAIN outClears :
        LET r == outClears[k] IN
        IF r.daPrice # Null /\ r.avgRtPrice # Null /\ r.clearedQty # 0
        THEN LET avg == Val(r.avgRtPrice) IN
             /\ r.pnl.den > 0
             /\ r.pnl.num * avg.den
                  = r.pnl.den * r.clearedQty * (avg.num - Val(r.daPrice) * avg.den)
        ELSE r.pnl = Zero

\* an hour with a position, a DA price and an RT average that is not a
\* whole number, and a P&L that is not 0
C2_Witness ==
    /\ Called
    /\ \E k \in DOMAIN outClears :
         LET r == outClears[k] IN
         /\ r.daPrice # Null /\ r.avgRtPrice # Null /\ r.clearedQty < 0
         /\ Val(r.avgRtPrice).den = 2
         /\ r.pnl # Zero

\* C3: an output hour without a DA price has daPrice null, clearedQty 0 and
\* pnl 0 whatever its bids and RT samples; with bids but no DA and no RT
\* data the call returns one record per bid hour, each with both prices
\* null, clearedQty 0 and pnl 0.
C3_NoDaPrice ==
    /\ Called =>
         /\ \A k \in DOMAIN outClears :
              LET r == outClears[k] IN
              r.hourStart \notin DaHours =>
                r.daPrice = Null /\ r.clearedQty = 0 /\ r.pnl = Zero
         /\ (inBids # <<>> /\ inDA = <<>> /\ inRT = <<>>) =>
              /\ Len(outClears) = Cardinality(BidHours)
              /\ \A k \in DOMAIN outClears :
                   /\ outClears[k].daPrice = Null
                   /\ outClears[k].avgRtPrice = Null
                   /\ outClears[k].clearedQty = 0
                   /\ outClears[k].pnl = Zero

\* an hour without a DA price that has a BUY bid and an RT average, next to
\* an hour that has a DA price
C3_Witness ==
    /\ Called
    /\ inDA # <<>>
    /\ \E k \in DOMAIN outClears :
         LET r == outClears[k] IN
         /\ r.hourStart \notin DaHours
         /\ r.avgRtPrice # Null
         /\ \E i \in BidsAt(r.hourStart) : inBids[i].side = "BUY"

\* C4: the hourStart values of the output are exactly the hourStart values
\* of the bids together with those of the DA prices, one record each; the
\* hour of an RT sample that is the hour of no bid and no DA price is not in
\* the output; without bids there is one record per DA hour, each with
\* clearedQty 0 and pnl 0.
C4_OutputHours ==
    Called =>
      /\ OutHours = BidHours \cup DaHours
      /\ Len(outClears) = Cardinality(BidHours \cup DaHours)
      /\ \A i \in DOMAIN inRT :
           ClockHourStart(inRT[i].datetime_beginning_ept) \notin BidHours \cup DaHours
             => ClockHourStart(inRT[i].datetime_beginning_ept) \notin OutHours
      /\ inBids = <<>> =>
           /\ Len(outClears) = Cardinality(DaHours)
           /\ \A k \in DOMAIN outClears :
                outClears[k].clearedQty = 0 /\ outClears[k].pnl = Zero

\* no bids, two DA prices for one hour and an RT sample in another hour
C4_Witness ==
    /\ Called
    /\ inBids = <<>>
    /\ Len(inDA) = 2 /\ Cardinality(DaHours) = 1
    /\ \E i \in DOMAIN inRT :
         ClockHourStart(inRT[i].datetime_beginning_ept) \notin DaHours
    /\ Len(outClears) = 1

\* C5: the output is in strictly ascending order of hourStart (as strings);
\* exchanging two neighbouring bids or two neighbouring DA prices of the
\* input leaves the sequence of output hours as it is; and the order is
\* the order in time, on the day the clocks go back too.
C5_SortedByHourStart ==
    Called =>
      /\ \A i, j \in DOMAIN outClears :
           i < j => localeCompare(outClears[i].hourStart, outClears[j].hourStart) < 0
      /\ \A i \in 1..(Len(inBids) - 1) :
           HourStartsOf(clearBids(Swap(inBids, i, i + 1), inDA, inRT))
             = HourStartsOf(outClears)
      /\ \A i \in 1..(Len(inDA) - 1) :
           HourStartsOf(clearBids(inBids, Swap(inDA, i, i + 1), inRT))
             = HourStartsOf(outClears)
      /\ \A i, j \in DOMAIN outClears :
           i < j => outClears[i].hourStart.utc <= outClears[j].hourStart.utc

---------------------------------------------------------------------------
(* Claims about getClearingSummary, under SpecSummary *)

Summarized == sumPc = "done"
PnlNum == [i \in DOMAIN sumIn |-> sumIn[i].pnl.num * (2 \div sumIn[i].pnl.den)]
QtyIn == [i \in DOMAIN sumIn |-> sumIn[i].clearedQty]
AbsQtyIn == [i \in DOMAIN sumIn |-> Abs(sumIn[i].clearedQty)]
LongHours == {i \in DOMAIN sumIn : sumIn[i].clearedQty > 0}
ShortHours == {i \in DOMAIN sumIn : sumIn[i].clearedQty < 0}
PnlHours == {i \in DOMAIN sumIn : sumIn[i].pnl # Zero}

\* C6: totalPnL is the sum of the pnl values, longQty the sum of the
\* positive clearedQty values, shortQty the sum of the absolute values of
\* the negative ones, totalClearedQty the sum of |clearedQty|,
\* hoursWithPositions the number of records with clearedQty # 0 and
\* hoursWithPnL the number with pnl # 0; all are 0 for the empty sequence.
\* (Every pnl of the inputs is a whole or a half number, so the sum of the
\* pnl values is half the sum of their doubles.)
C6_SummaryTotals ==
    Summarized =>
      /\ \A i \in DOMAIN sumIn : sumIn[i].pnl.den \in {1, 2}
      /\ summary.totalPnL.den \in {1, 2}
      /\ summary.totalPnL.num * (2 \div summary.totalPnL.den)
           = SumOver(DOMAIN sumIn, PnlNum)
      /\ summary.longQty = SumOver(LongHours, QtyIn)
      /\ summary.shortQty = SumOver(ShortHours, AbsQtyIn)
      /\ summary.totalClearedQty = SumOver(DOMAIN sumIn, AbsQtyIn)
      /\ summary.hoursWithPositions = Cardinality(LongHours \cup ShortHours)
      /\ summary.hoursWithPnL = Cardinality(PnlHours)
      /\ sumIn = <<>> =>
           /\ summary.totalPnL = Zero /\ summary.avgPnLPerHour = Zero
           /\ summary.totalClearedQty = 0
           /\ summary.longQty = 0 /\ summary.shortQty = 0
           /\ summary.hoursWithPositions = 0 /\ summary.hoursWithPnL = 0

\* a long hour, a short hour and a flat hour, with P&L of both signs
C6_Witness ==
    /\ Summarized
    /\ Len(sumIn) = 3
    /\ LongHours # {} /\ ShortHours # {}
    /\ \E i \in DOMAIN sumIn : sumIn[i].clearedQty = 0
    /\ \E i, j \in DOMAIN sumIn : sumIn[i].pnl.num < 0 /\ sumIn[j].pnl.num > 0
    /\ summary.shortQty > 0 /\ summary.longQty > 0

\* C7: avgPnLPerHour is totalPnL divided by the number of hours with
\* nonzero pnl when there is such an hour, and 0 when there is none; the
\* division is never by zero.
C7_AvgPnLPerHour ==
    Summarized =>
      LET n == Cardinality(PnlHours)
          avg == summary.avgPnLPerHour
      IN /\ avg.den > 0
         /\ IF n > 0
            THEN avg.num * n * summary.totalPnL.den = summary.totalPnL.num * avg.den
            ELSE avg = Zero

\* one hour with nonzero pnl beside hours with pnl 0: the average is the
\* total, not the total over the number of records
C7_Witness ==
    /\ Summarized
    /\ Len(sumIn) = 3
    /\ Cardinality(PnlHours) = 1
    /\ summary.totalPnL # Zero
    /\ summary.avgPnLPerHour = summary.totalPnL

---------------------------------------------------------------------------
(* Claims about averageRTToHourly, under SpecAverage *)

Averaged == avgPc = "done"
SampleHours == {ClockHourStart(rtData[i].datetime_beginning_ept) : i \in DOMAIN rtData}
SamplesIn(h) ==
    {i \in DOMAIN rtData : ClockHourStart(rtData[i].datetime_beginning_ept) = h}
PriceOf == [i \in DOMAIN rtData |-> rtData[i].settlement_point_price]
Averages(avgs) ==
    [i \in DOMAIN avgs |-> [hourStart |-> avgs[i].hourStart, avgPrice |-> avgs[i].avgPrice]]
\* the samples of every clock hour name one settlement point
OnePointPerHour ==
    \A i, j \in DOMAIN rtData :
      ClockHourStart(rtData[i].datetime_beginning_ept)
          = ClockHourStart(rtData[j].datetime_beginning_ept)
        => rtData[i].settlement_point = rtData[j].settlement_point

\* C9: the output has exactly one record for every market-local clock hour
\* that holds a sample and none for any other hour; its avgPrice is the sum
\* of the prices of the samples in that hour divided by their number; the
\* records are in ascending order of hourStart; empty input gives empty
\* output.
C9_HourlyMean ==
    Averaged =>
      /\ {hourlyAverages[k].hourStart : k \in DOMAIN hourlyAverages} = SampleHours
      /\ Len(hourlyAverages) = Cardinality(SampleHours)
      /\ \A k \in DOMAIN hourlyAverages :
           LET r == hourlyAverages[k]
               in == SamplesIn(r.hourStart)
           IN /\ r.avgPrice.den > 0
              /\ r.avgPrice.num * Cardinality(in) = SumOver(in, PriceOf) * r.avgPrice.den
      /\ \A i, j \in DOMAIN hourlyAverages :
           i < j => /\ localeCompare(hourlyAverages[i].hourStart,
                                     hourlyAverages[j].hourStart) < 0
                    /\ hourlyAverages[i].hourStart.utc < hourlyAverages[j].hourStart.utc
      /\ rtData = <<>> => hourlyAverages = <<>>

\* three samples, two of them in one hour (written with different offsets,
\* the later one supplied first) with a mean that is not a whole number,
\* the third in the hour after the clocks went back
C9_Witness ==
    /\ Averaged
    /\ Len(rtData) = 3
    /\ rtData[1].datetime_beginning_ept = T0100CST
    /\ rtData[2].datetime_beginning_ept = T0130CDTalt
    /\ rtData[3].datetime_beginning_ept = T0105CDTraw
    /\ Len(hourlyAverages) = 2
    /\ hourlyAverages[1].hourStart = T0100CDT
    /\ hourlyAverages[1].avgPrice = Frac(5, 2)

\* C10 as claimed: exchanging any two samples of the input leaves the
\* returned records (hourStart, avgPrice, settlement_point) as they are.
C10_OrderInvariantRecords ==
    Averaged =>
      \A i, j \in DOMAIN rtData :
        averageRTToHourly(Swap(rtData, i, j)) = hourlyAverages

\* C10 as amended: exchanging any two samples of the input leaves the
\* returned hourStart and avgPrice values as they are, and the
\* settlement_point values too when the samples of every clock hour name one
\* settlement point.
C10_OrderInvariantAverages ==
    Averaged =>
      \A i, j \in DOMAIN rtData :
        LET swapped == averageRTToHourly(Swap(rtData, i, j))
        IN /\ Averages(swapped) = Averages(hourlyAverages)
           /\ OnePointPerHour => swapped = hourlyAverages

\* two samples of one hour with different prices and different settlement
\* points, and a sample of a later hour supplied first
C10_Witness ==
    /\ Averaged
    /\ Len(rtData) = 3
    /\ rtData[1].datetime_beginning_ept = T0100CST
    /\ rtData[2].datetime_beginning_ept = T0105CDTraw
    /\ rtData[3].datetime_beginning_ept = T0130CDTalt
    /\ rtData[2].settlement_point # rtData[3].settlement_point
    /\ rtData[2].settlement_point_price # rtData[3].settlement_point_price
    /\ Len(hourlyAverages) = 2
    /\ hourlyAverages[1].settlement_point = rtData[2].settlement_point

---------------------------------------------------------------------------
(* The sign of the P&L *)

\* the number x is greater than 0
Positive(x) == x.num > 0 /\ x.den > 0
\* the number x is less than the integer n
LessThanInt(x, n) == x.num < n * x.den
\* the number x is greater than the integer n
GreaterThanInt(x, n) == x.num > n * x.den
\* the hour's bids of one side that clear at the DA price p
ClearedAt(h, side, p) ==
    {i \in BidsAt(h) :
       /\ inBids[i].side = side
       /\ IF side = "BUY" THEN inBids[i].price >= p ELSE inBids[i].price <= p}

\* C16: in every output hour with both prices present, a net long position
\* has pnl > 0 exactly when avgRtPrice > daPrice, a net short position has
\* pnl > 0 exactly when avgRtPrice < daPrice, and a flat position has pnl 0.
C16_PnlSign ==
    Called =>
      \A k \in DOMAIN outClears :
        LET r == outClears[k] IN
        (r.daPrice # Null /\ r.avgRtPrice # Null) =>
          /\ r.clearedQty > 0 =>
               (Positive(r.pnl) <=> GreaterThanInt(Val(r.avgRtPrice), Val(r.daPrice)))
          /\ r.clearedQty < 0 =>
               (Positive(r.pnl) <=> LessThanInt(Val(r.avgRtPrice), Val(r.daPrice)))
          /\ r.clearedQty = 0 => r.pnl = Zero

\* an hour in which a cleared BUY and a cleared SELL offset exactly while the
\* RT average is above the DA price
C16_Witness ==
    /\ Called
    /\ \E k \in DOMAIN outClears :
         LET r == outClears[k] IN
         /\ r.daPrice # Null /\ r.avgRtPrice # Null
         /\ GreaterThanInt(Val(r.avgRtPrice), Val(r.daPrice))
         /\ ClearedAt(r.hourStart, "BUY", Val(r.daPrice)) # {}
         /\ ClearedAt(r.hourStart, "SELL", Val(r.daPrice)) # {}
         /\ r.clearedQty = 0
         /\ r.pnl = Zero

---------------------------------------------------------------------------
(* The cutoff *)

\* the instant at which the America/Chicago wall clock shows 11:00 on a
\* date: daylight-saving time (UTC-5) before 2024-11-03, standard time
\* (UTC-6) from that day on
MarketCutoff(date) ==
    date * 1440 + 660 + (IF date < 0 THEN 0 ELSE 60)

\* C11: isCutoffPassed is false when the clock is read at or before 11:00
\* market-local time on the trading date and true when it is read after it
\* (so that, the clock never going back, a true answer is never followed by
\* a false one).
C11_CutoffPassed ==
    cutoffStatus # Null =>
      (Val(cutoffStatus).isCutoffPassed
         <=> Val(cutoffStatus).currentTime.utc > MarketCutoff(cutoffDate))

\* C12: the cutoff time of a trading date is 11:00:00.000 on the
\* America/Chicago wall clock of that same date, whatever the zone of the
\* machine.
C12_CutoffOnTradingDate ==
    cutoffStatus # Null =>
      Val(cutoffStatus).cutoffTime
        = [utc |-> MarketCutoff(cutoffDate), off |-> -6, ms |-> TRUE]

---------------------------------------------------------------------------
(* The store *)

Loaded == state # <<>>
\* the positions of the stored bids of one hour
StoredAt(s, h) == {i \in DOMAIN s.bids : s.bids[i].hourStart = h}
StoredHours(s) == {s.bids[i].hourStart : i \in DOMAIN s.bids}
StoredIds(s) == {s.bids[i].id : i \in DOMAIN s.bids}

\* C13: whatever store actions have been called, no hour holds more than 10
\* stored bids and no two stored bids have the same id.
C13_CapAndDistinctIds ==
    Loaded =>
      /\ \A h \in StoredHours(state) :
           Cardinality(StoredAt(state, h)) <= 10
      /\ \A i, j \in DOMAIN state.bids :
           state.bids[i].id = state.bids[j].id => i = j

\* one hour is full, an eleventh bid for it has been refused, and another
\* hour holds a bid too
C13_Witness ==
    /\ Loaded
    /\ Cardinality(StoredAt(state, T0100CDT)) = 10
    /\ Cardinality(StoredAt(state, T0100CST)) = 1
    /\ state.error = Some("Maximum 10 bids per hour allowed")

\* C19: addBid on an hour holding 10 bids changes nothing but error, which
\* becomes "Maximum 10 bids per hour allowed"; on an hour holding fewer it
\* appends exactly one bid, with the given fields and an id no stored bid
\* has, and sets error to null.
C19_AddBidEffect ==
    [][\A bidData \in StoreBidForms :
         (nextId' = nextId + 1 /\ state' = addBid(state, bidData, nextId)) =>
           IF Cardinality(StoredAt(state, bidData.hourStart)) >= 10
           THEN /\ state'.bids = state.bids
                /\ state'.error = Some("Maximum 10 bids per hour allowed")
                /\ state'.marketSelection = state.marketSelection
                /\ state'.marketData = state.marketData
                /\ state'.hourlyClears = state.hourlyClears
           ELSE /\ Len(state'.bids) = Len(state.bids) + 1
                /\ SubSeq(state'.bids, 1, Len(state.bids)) = state.bids
                /\ LET bid == state'.bids[Len(state'.bids)] IN
                   /\ bid.id \notin StoredIds(state)
                   /\ bid.hourStart = bidData.hourStart
                   /\ bid.side = bidData.side
                   /\ bid.price = bidData.price
                   /\ bid.qtyMWh = bidData.qtyMWh
                /\ state'.error = Null]_vars

\* a refused bid: the hour is full, the cap error is set, and the results
\* and market data set before are still there
C19_Witness ==
    /\ Loaded
    /\ Cardinality(StoredAt(state, T0100CDT)) = 10
    /\ state.error = Some("Maximum 10 bids per hour allowed")
    /\ state.hourlyClears # <<>>
    /\ state.marketData.daHourly # <<>>
    /\ nextId > 11

\* C20: setMarketSelection empties the DA and RT lists and the clearing
\* results, sets error to null, replaces the given fields of marketSelection
\* and keeps the others, and leaves the bid list and isLoading as they were.
C20_SetMarketSelectionEffect ==
    [][\A selection \in StoreSelections :
         (nextId' = nextId /\ state' = setMarketSelection(state, selection)) =>
           /\ state'.marketData = [daHourly |-> <<>>, rtFiveMin |-> <<>>]
           /\ state'.hourlyClears = <<>>
           /\ state'.error = Null
           /\ \A k \in {"iso", "settlementPoint", "tradingDate"} :
                state'.marketSelection[k] =
                  IF k \in DOMAIN selection THEN selection[k]
                  ELSE state.marketSelection[k]
           /\ state'.bids = state.bids
           /\ state'.isLoading = state.isLoading]_vars

\* the selection has been changed, with bids stored and loading under way,
\* and nothing has been fetched or cleared since
C20_Witness ==
    /\ Loaded
    /\ state.marketSelection.settlementPoint = "HB_NORTH"
    /\ state.marketSelection.tradingDate = 1
    /\ state.bids # <<>>
    /\ state.isLoading
    /\ state.marketData = [daHourly |-> <<>>, rtFiveMin |-> <<>>]
    /\ state.hourlyClears = <<>>
    /\ state.error = Null

\* C18: when the selection changes to another trading date or settlement
\* point, no bid stored before the change is stored after it.
C18_BidsKeyedBySelection ==
    [][(Loaded /\ \/ state'.marketSelection.tradingDate
                       # state.marketSelection.tradingDate
                  \/ state'.marketSelection.settlementPoint
                       # state.marketSelection.settlementPoint)
         => StoredIds(state') \cap StoredIds(state) = {}]_vars

---------------------------------------------------------------------------
(* The components *)

\* C14: once the clock is past 11:00 market time on the selected trading
\* date, no step of the order-entry component adds a bid to the bid set or
\* removes one from it.
C14_LockedAfterCutoff ==
    [][(Loaded /\ now > MarketCutoff(state.marketSelection.tradingDate))
         => state'.bids = state.bids]_vars

\* C15: once the ClearingTable effect has run after a change of the stored
\* bids or market data, the stored hourlyClears is clearBids of the stored
\* bids, DA prices and RT prices.
C15_ClearsFollowInputs ==
    (Loaded /\ ~effectPending) =>
      state.hourlyClears = clearBids(state.bids, state.marketData.daHourly,
                                     state.marketData.rtFiveMin)

---------------------------------------------------------------------------
(* The proxy's retry loop *)

\* C17: fetchWithRetry(3) issues at most 4 upstream requests whatever the
\* upstream does, and it ends: it returns a response or throws the last
\* error.
C17_BoundedRetries ==
    /\ [](attemptsUsed <= 4)
    /\ [](retryPc = "returned" =>
            retryResult # Null /\ Val(retryResult) \in UpstreamResponses)
    /\ [](retryPc = "thrown" =>
            lastError # Null /\ retryResult = lastError
            /\ Val(retryResult) \in {toError(err) : err \in UpstreamErrors})
    /\ <>(retryPc \in {"returned", "thrown"})

\* a 429 on the fourth request, after errors and 429s on the first three,
\* is returned
C17_Witness ==
    /\ retryPc = "returned"
    /\ attemptsUsed = 4
    /\ Val(retryResult).status = 429
    /\ lastError # Null
    /\ delayMs = 3000

---------------------------------------------------------------------------
(* More about clearBids, under SpecClear *)

\* the DA price points of one hour, by position in the input
DaAt(h) == {i \in DOMAIN inDA : inDA[i].datetime_beginning_ept = h}
\* the RT samples whose instant lies in the clock hour a timestamp names
RtIn(h) == {i \in DOMAIN inRT : inRT[i].datetime_beginning_ept.utc \div 60 = h.utc \div 60}
RtPriceOf == [i \in DOMAIN inRT |-> inRT[i].settlement_point_price]

\* C29: in every output of clearBids a record with pnl # 0 has
\* clearedQty # 0 and both prices present, and a record with clearedQty # 0
\* has a DA price; so the summary of the output has
\* hoursWithPnL <= hoursWithPositions <= the number of output hours.
C29_PnlNeedsPosition ==
    Called =>
      /\ \A k \in DOMAIN outClears :
           LET r == outClears[k] IN
           /\ r.pnl # Zero =>
                r.clearedQty # 0 /\ r.daPrice # Null /\ r.avgRtPrice # Null
           /\ r.clearedQty # 0 => r.daPrice # Null
      /\ LET s == getClearingSummary(outClears) IN
         /\ s.hoursWithPnL <= s.hoursWithPositions
         /\ s.hoursWithPositions <= Len(outClears)

\* an hour with a position and no RT average, so without P&L, beside an
\* hour that has bids and no DA price
C29_Witness ==
    /\ Called
    /\ \E k \in DOMAIN outClears :
         LET r == outClears[k] IN
         r.clearedQty # 0 /\ r.avgRtPrice = Null /\ r.pnl = Zero
    /\ \E k \in DOMAIN outClears :
         LET r == outClears[k] IN
         r.daPrice = Null /\ BidsAt(r.hourStart) # {} /\ r.clearedQty = 0
    /\ getClearingSummary(outClears).hoursWithPnL = 0
    /\ getClearingSummary(outClears).hoursWithPositions = 1
    /\ Len(outClears) = 2

\* C24: when several DA price points name one hour the call returns, its
\* output has exactly one record for that hour, and the record's daPrice is
\* the price of the last of them in input order, which is the price the
\* bids of the hour are cleared at and the pnl is computed from.
C24_LastDuplicateWins ==
    Called =>
      \A h \in DaHours :
        LET last == CHOOSE i \in DaAt(h) : \A j \in DaAt(h) : j <= i
            p == inDA[last].settlement_point_price
            at == {k \in DOMAIN outClears : outClears[k].hourStart = h}
        IN /\ Cardinality(at) = 1
           /\ \A k \in at :
                LET r == outClears[k] IN
                /\ r.daPrice = Some(p)
                /\ r.clearedQty = SumOver(ClearedAt(h, "BUY", p), QtyOf)
                                    - SumOver(ClearedAt(h, "SELL", p), QtyOf)
                /\ (r.avgRtPrice # Null /\ r.clearedQty # 0) =>
                     r.pnl = NumMul(Num(r.clearedQty),
                                    NumSub(Val(r.avgRtPrice), Num(p)))

\* two DA price points for one hour, the first above a BUY bid's limit and
\* the last at it: the bid has cleared at the last price, with a P&L
C24_Witness ==
    /\ Called
    /\ Len(inDA) = 2
    /\ inDA[1].datetime_beginning_ept = inDA[2].datetime_beginning_ept
    /\ inDA[1].settlement_point_price = 3
    /\ inDA[2].settlement_point_price = 2
    /\ Len(inBids) = 1 /\ inBids[1].side = "BUY" /\ inBids[1].price = 2
    /\ Len(outClears) = 1
    /\ outClears[1].daPrice = Some(2)
    /\ outClears[1].clearedQty = inBids[1].qtyMWh
    /\ outClears[1].pnl # Zero

\* C25: in every output hour avgRtPrice is null exactly when no RT sample
\* lies in the clock hour the record's hourStart names, and is otherwise the
\* mean of the RT samples in that hour, however the hourStart of the bid or
\* DA price is written.
C25_RtAverageOfTheHour ==
    Called =>
      \A k \in DOMAIN outClears :
        LET r == outClears[k]
            in == RtIn(r.hourStart)
        IN /\ r.avgRtPrice = Null <=> in = {}
           /\ r.avgRtPrice # Null =>
                Val(r.avgRtPrice).num * Cardinality(in)
                  = SumOver(in, RtPriceOf) * Val(r.avgRtPrice).den

---------------------------------------------------------------------------
(* The totals of the summary, under SpecSummaryDoubles *)

\* a double that is a whole number
Whole(q) == \A i \in q.mag : i >= FractionBits
\* two doubles less than 2^-45 apart
Close(a, b) == \A i \in DoubleSub(a, b).mag : i <= 10

\* C30 as claimed: for every sequence of records, totalClearedQty =
\* longQty + shortQty, longQty >= 0, shortQty >= 0, and longQty - shortQty
\* is the sum of the signed clearedQty values.
C30_TotalsRelations ==
    Summarized =>
      /\ summary.totalClearedQty = DoubleAdd(summary.longQty, summary.shortQty)
      /\ ~summary.longQty.neg
      /\ ~summary.shortQty.neg
      /\ DoubleSub(summary.longQty, summary.shortQty)
           = SumDoubles(ClearedQtys(sumIn))

\* C30 as amended: longQty >= 0 and shortQty >= 0 for every sequence of
\* records; totalClearedQty = longQty + shortQty and longQty - shortQty =
\* the sum of the signed clearedQty values when every clearedQty is a whole
\* number, and to within 2^-45 otherwise.
C30_TotalsRelationsUpToRounding ==
    Summarized =>
      LET net == SumDoubles(ClearedQtys(sumIn)) IN
      /\ ~summary.longQty.neg
      /\ ~summary.shortQty.neg
      /\ Close(summary.totalClearedQty,
               DoubleAdd(summary.longQty, summary.shortQty))
      /\ Close(DoubleSub(summary.longQty, summary.shortQty), net)
      /\ (\A i \in DOMAIN sumIn : Whole(sumIn[i].clearedQty)) =>
           /\ summary.totalClearedQty
                = DoubleAdd(summary.longQty, summary.shortQty)
           /\ DoubleSub(summary.longQty, summary.shortQty) = net

\* the cleared quantities -0.9, 0.1 and -0.9: the total is 1.9 and
\* longQty + shortQty is the next double above it
C30_Witness ==
    /\ Summarized
    /\ ClearedQtys(sumIn) = <<Tenths(-9), Tenths(1), Tenths(-9)>>
    /\ summary.longQty = Tenths(1)
    /\ summary.shortQty.mag # {} /\ ~summary.shortQty.neg
    /\ DoubleSub(DoubleAdd(summary.longQty, summary.shortQty),
                 summary.totalClearedQty) = [neg |-> FALSE, mag |-> {4}]

\* C21: the wait after a 429 on attempt k (k = 0, 1, 2) is the Retry-After
\* hint when the response has one (a number of seconds, in milliseconds
\* rounded up, or the time left until an HTTP date; never negative) and
\* 1200 * (k + 1) ms otherwise, so 1200, 2400 and 3600 ms; the wait after a
\* network error on attempt k is 1200 * (k + 1) ms.
C21_BackoffDelay ==
    retryPc = "sleep" =>
      /\ attempt \in 0..2
      /\ IF res = Null
         THEN lastError # Null /\ delayMs = 1200 * (attempt + 1)
         ELSE LET hint == Val(res).retryAfter IN
              /\ Val(res).status = 429
              /\ CASE hint.kind = "seconds" ->
                        /\ delayMs >= 0
                        /\ delayMs * hint.seconds.den >= 1000 * hint.seconds.num
                        /\ delayMs > 0 =>
                             (delayMs - 1) * hint.seconds.den < 1000 * hint.seconds.num
                   [] hint.kind = "date" ->
                        delayMs = IF hint.fromNowMs > 0 THEN hint.fromNowMs ELSE 0
                   [] OTHER ->
                        /\ delayMs = 1200 * (attempt + 1)
                        /\ delayMs = <<1200, 2400, 3600>>[attempt + 1]

\* the third 429 in a row, its Retry-After neither a number nor a date: the
\* wait is 3600 ms
C21_Witness ==
    /\ retryPc = "sleep"
    /\ attempt = 2
    /\ attemptsUsed = 3
    /\ res # Null
    /\ Val(res).retryAfter.kind = "garbage"
    /\ lastError = Null
    /\ delayMs = 3600

\* the proxy has answered
Answered == proxyResponse # Null
\* the answer of the catch block of GET
AnsweredInternalError ==
    /\ Answered
    /\ Val(proxyResponse).status = 500
    /\ Val(proxyResponse).body = "Internal server error"

\* only a 429 and a thrown error are followed by another attempt, and not
\* after the fourth request; any other response ends the loop
RetriedOnly429AndErrors ==
    [][(retryPc = "fetch" /\ retryPc' # "fetch") =>
         IF res' = Null
         THEN retryPc' = IF attemptsUsed < 4 THEN "sleep" ELSE "thrown"
         ELSE IF Val(res').status = 429 /\ attemptsUsed < 4
         THEN retryPc' = "sleep"
         ELSE retryPc' = "returned" /\ retryResult' = res']_vars

\* C22 as claimed: only 429 responses and thrown errors are retried, and a
\* 429 on the fourth attempt is final; the proxy answers a final response
\* with that response's status (an error body when it is not OK, the
\* transformed data when it is), and 500 only when the fourth attempt threw
\* or the body could not be processed; on success X-Retry-Attempts is the
\* number of upstream requests issued.
C22_OutcomeMapping ==
    /\ RetriedOnly429AndErrors
    /\ [](Answered =>
            LET a == Val(proxyResponse) IN
            /\ (retryPc = "returned" /\ ~AnsweredInternalError) =>
                 /\ a.status = Val(retryResult).status
                 /\ a.body = IF Val(retryResult).status \in 200..299
                             THEN "data" ELSE "GridStatus error"
            /\ AnsweredInternalError =>
                 \/ retryPc = "thrown" /\ attemptsUsed = 4
                 \/ retryPc = "returned" /\ Val(retryResult).body = "malformed"
            /\ a.body = "data" => a.retryAttempts = Some(attemptsUsed))

\* C22 as amended: as claimed, except that a final response with an OK
\* status whose body can be processed is answered with status 200, whatever
\* its own 2xx status.
C22_OutcomeMappingOkIs200 ==
    /\ RetriedOnly429AndErrors
    /\ [](Answered =>
            LET a == Val(proxyResponse) IN
            /\ (retryPc = "returned" /\ ~AnsweredInternalError) =>
                 IF Val(retryResult).status \in 200..299
                 THEN a.status = 200 /\ a.body = "data"
                 ELSE /\ a.status = Val(retryResult).status
                      /\ a.body = "GridStatus error"
            /\ AnsweredInternalError =>
                 \/ retryPc = "thrown" /\ attemptsUsed = 4
                 \/ retryPc = "returned" /\ Val(retryResult).body = "malformed"
            /\ a.body = "data" => a.retryAttempts = Some(attemptsUsed))

\* a 203 with a good body on the third request, after a 429 and an error:
\* answered with 200, the data and X-Retry-Attempts 3
C22_Witness ==
    /\ Answered
    /\ retryPc = "returned"
    /\ Val(retryResult).status = 203
    /\ attemptsUsed = 3
    /\ lastError # Null
    /\ Val(proxyResponse) = [status |-> 200, body |-> "data", retryAttempts |-> Some(3)]

---------------------------------------------------------------------------
(* The hours of a trading date, under SpecCutoff *)

\* what the market wall clock shows at the instant a timestamp string
\* names, in minutes from 00:00 of 2024-11-03
MarketWall(ts) == ts.utc + 300 + 60 * (IF ts.utc < 120 THEN -5 ELSE -6)

\* C26: getHourStartsForDate(D) returns 24 pairwise distinct hour starts,
\* all on calendar date D of the market wall clock, the first at 00:00 and
\* the last at 23:00, in ascending order, on the day the clocks go back too.
C26_HoursOfTheTradingDate ==
    hourStarts # Null =>
      LET hs == Val(hourStarts) IN
      /\ Len(hs) = 24
      /\ \A i, j \in DOMAIN hs : i < j => hs[i] # hs[j] /\ hs[i].utc < hs[j].utc
      /\ \A i \in DOMAIN hs :
           /\ MarketWall(hs[i]) \div 1440 = cutoffDate
           /\ MarketWall(hs[i]) % 60 = 0
      /\ MarketWall(hs[1]) % 1440 = 0
      /\ MarketWall(hs[24]) % 1440 = 23 * 60

---------------------------------------------------------------------------
(* The page, under SpecTradingApp *)

\* C27: initializeClientDate replaces only the untouched default trading
\* date: once the user has chosen a date in the DatePicker, 2024-12-01
\* included, the selected trading date is the date last chosen, whatever
\* initializeClientDate and page loads happen afterwards.
C27_ChosenDateIsKept ==
    pickedDate # Null => state.marketSelection.tradingDate = Val(pickedDate)

\* a step in which fetchMarketData itself goes on after the promise it
\* awaited (a page load ends it too, and forgets its closure)
FetchGoesOn == fetchPc # "idle" /\ fetchPc' # fetchPc /\ fetchFor' # Null

\* the run ended in the catch block: marketData is as it was, error is a
\* message and isLoading is false
EndedInError ==
    /\ fetchPc' = "idle"
    /\ state'.marketData = state.marketData
    /\ state'.error # Null
    /\ ~state'.isLoading

\* the run went on to its next await and stored nothing
WentOnTo(pc) == fetchPc' = pc /\ state' = state

\* C23: while fetchMarketData runs isLoading is true; the RT request is
\* issued only after the DA response was ok and its body was parsed, and
\* nothing is stored before the end of the run; a DA or RT request that
\* fails (fetch rejects, the status is not ok, or the body is not JSON)
\* ends the run with marketData unchanged, error set to a message and
\* isLoading false; when both are received the run ends with daHourly and
\* rtFiveMin replaced in the same step by the rows of the two responses,
\* no error set and isLoading false.
C23_BothOrNothing ==
    [][/\ fetchPc' # "idle" => state'.isLoading
       /\ fetchPc' \in {"rt", "rtJson"} => received(daResponse')
       /\ FetchGoesOn =>
            CASE fetchPc = "da" ->
                   IF passed(daResponse') THEN WentOnTo("daJson") ELSE EndedInError
              [] fetchPc = "daJson" ->
                   IF received(daResponse) THEN WentOnTo("rt") ELSE EndedInError
              [] fetchPc = "rt" ->
                   IF passed(rtResponse') THEN WentOnTo("rtJson") ELSE EndedInError
              [] fetchPc = "rtJson" ->
                   IF received(rtResponse)
                   THEN /\ fetchPc' = "idle"
                        /\ state'.marketData =
                             [daHourly |-> dataOf(daResponse),
                              rtFiveMin |-> dataOf(rtResponse)]
                        /\ state'.error = state.error
                        /\ ~state'.isLoading
                   ELSE EndedInError]_vars

\* a run whose DA request was received and whose RT request was answered
\* with a status that is not ok, made while rows of an earlier run were
\* stored: the rows are still there
C23_Witness ==
    /\ fetchPc = "idle" /\ fetchFor # Null
    /\ received(daResponse)
    /\ rtResponse # Null /\ ~Val(rtResponse).ok
    /\ Val(rtResponse).statusText = "Bad Gateway"
    /\ state.marketData.daHourly # <<>>
    /\ state.marketData.rtFiveMin # <<>>
    /\ state.error = Some("Failed to fetch RT data: Bad Gateway")
    /\ ~state.isLoading

\* the rows are those of the given trading date at the given settlement
\* point
RowsBelongTo(rows, selection) ==
    \A i \in DOMAIN rows :
      /\ rows[i].settlement_point = selection.settlementPoint
      /\ MarketWall(rows[i].datetime_beginning_ept) \div MinutesPerDay
           = selection.tradingDate

\* C28: in every state the stored DA and RT rows are rows of the currently
\* selected trading date at the currently selected settlement point,
\* however fetchMarketData, handleDateChange, handleSettlementPointChange
\* and initializeClientDate interleave.
C28_DataOfTheSelection ==
    /\ RowsBelongTo(state.marketData.daHourly, state.marketSelection)
    /\ RowsBelongTo(state.marketData.rtFiveMin, state.marketSelection)

=============================================================================
